---------------------------- MODULE Spec2Model ----------------------------
(***************************************************************************)
(* sketch2cad: curve sampling and DXF export (export_dxf.py), the SVG      *)
(* transform-list parser and the potrace adapter (vectorize_potrace.py).   *)
(*                                                                         *)
(* Numbers.  Python floats are modelled as fixed-point numbers that are    *)
(* rounded after every operation, so that "exactly equal" is not the same  *)
(* thing as "equal up to rounding":                                        *)
(*   - a dimensionless float (the curve parameter t, a Bernstein weight,   *)
(*     the scale factor) is an integer count of 1/Prec, 1.0 being Prec;    *)
(*   - a pixel coordinate is an integer count of 1e-6 px, which is the     *)
(*     tolerance of _almost_same, so that tolerance is Eps = 1 unit.       *)
(* A product of a weight and a coordinate is rounded to the coordinate     *)
(* grid, a quotient or a product of weights to the weight grid.            *)
(***************************************************************************)
EXTENDS Integers, Sequences, FiniteSets, TLC

\* ------------------------------------------------------------------ bounds
\* Units per 1.0 of a dimensionless float (the precision of the model).
Prec == 4
\* Largest sample count n (bezier_samples) tried; the code's default is 16.
MaxSamples == 3
\* Control points of the sampler specification have |x| <= MaxCoord, y in {0, MaxCoord}.
MaxCoord == 1
\* Longest segment list of a path in the single-path specification.
MaxSegs == 2
\* Longest path list handed to one export call.
MaxPaths == 2
\* Longest transform list handed to the transform parser.
MaxTokens == 3
\* Entities of a drawing handed to the metrics.
MaxEntities == 3
\* Columns of the image handed to the mask splitter.
ImgW == 8
\* Largest stable_checks, largest file size and most pending events of the
\* watch handler specification.
MaxChecks == 2
MaxSize == 2
MaxQueue == 2

\* ------------------------------------------------------- program constants
\* eps of _almost_same: 1e-6 px, one coordinate unit.
Eps == 1
\* export_dxf.py: the default bezier_samples.
DefaultSamples == 16
\* contours.py: the fewest gray samples inside outer for the Otsu branch,
\* the fixed cutoff of the last resort, and the largest gray level.
MinGraySamples == 50
BrightFrom == 200
White == 255

VARIABLES
    \* --- CurveSampler: one call of _segment_to_points
    s_seg,          \* the PathSegment given
    s_n,            \* samples
    s_out,          \* the returned point list
    s_done,         \* whether the call has returned
    \* --- export_paths_to_dxf: one call
    paths,          \* argument: list of VectorPath
    scale,          \* argument: scale (float, in 1/Prec)
    bezier_samples, \* argument
    prefer_splines, \* argument
    pc,             \* position in the call
    doc,            \* the ezdxf document under construction, NoDoc before ezdxf.new
    k,              \* number of paths the loop of line 76 has gone through
    pts,            \* local pts of the last loop iteration (line 78..94)
    emitted,        \* per path gone through: index of its entity in doc, 0 if skipped
    file0,          \* what out_path held when the call started
    out_file,       \* what out_path holds now
    io_ops,         \* number of file-system operations the call has made
    result,         \* "none" while running, "ok", or the exception raised
    \* --- AffineTransformParser: one call of _parse_transform_list
    t_in,           \* the transform string, as its list of tokens
    t_out,          \* what the call returned or raised
    t_done,         \* whether the call has ended
    \* --- VectorizationAdapter: one call of vectorize_with_potrace
    v_binary,       \* argument: the mask, a list of pixels (0 or 255)
    v_debug,        \* argument: whether a debug_svg_path is given
    v_which,        \* environment: whether shutil.which finds potrace
    v_pc,           \* position in the call
    v_scratch,      \* the scratch directories and files that exist
    v_created,      \* the scratch directories and files the call has created
    v_input,        \* the pixels staged in input.pgm
    v_svg,          \* what the engine left at out.svg
    v_launched,     \* number of subprocesses launched
    v_proc,         \* the completed process: return code and stderr
    v_debug_file,   \* what the call wrote at debug_svg_path
    v_result,       \* what the call returned or raised
    \* --- ScaleCalibrator: one call of compute_mm_per_px
    c_cfg,          \* argument: the mm_per_px, ref_mm and ref_px of the PipelineConfig
    c_out,          \* what the call returned or raised
    c_done,         \* whether the call has ended
    \* --- DrawingMetrics: one call of compute_dxf_metrics
    m_file,         \* what dxf_path holds: the drawing as ezdxf reads it
    m_out,          \* what the call returned or raised
    m_done,         \* whether the call has ended
    \* --- MaskSegmenter: one call of split_outer_holes_masks
    h_in,           \* arguments: the image size, binary, gray (or none) and min_area
    h_out,          \* the returned outer and holes masks
    h_done,         \* whether the call has returned
    \* --- Pipeline: one call of run_pipeline
    p_cfg,          \* argument: input_path, debug_dump and the scale fields of the PipelineConfig
    p_pc,           \* position in the call
    p_mm,           \* local mm_per_px
    p_masks,        \* locals outer_mask and holes_mask
    p_traced,       \* the masks vectorize_with_potrace has been called on, in order
    p_outline,      \* local paths_outline
    p_holes,        \* local paths_holes
    p_export,       \* the path list and scale export_paths_to_dxf was called with
    p_dxf,          \* what cfg.output_dxf holds
    p_exc,          \* the exception the except clause of line 83 caught
    p_report_file,  \* what <output_dxf>.report.json holds
    p_ret,          \* how the call ended: the Report returned, or an exception raised
    \* --- WatchHandler: the handler of the watched directory and its environment
    w_checks,       \* configuration: stable_checks
    w_file,         \* the image file in the watched directory: whether it exists, its size, whether the pipeline can process it
    w_failed,       \* whether <output_dir>/_failed holds a file of the image's name
    w_events,       \* created/modified events for the image file not yet dispatched
    w_other,        \* whether an event for a file of another suffix is not yet dispatched
    w_pc,           \* position of the handler thread in _handle
    w_i,            \* iterations of the loop of _is_file_stable done
    w_last,         \* local last of _is_file_stable
    w_seen,         \* the sizes the samples of this call of _is_file_stable saw
    w_missed,       \* whether a sample of this call found the file missing
    w_stable,       \* what this call of _is_file_stable returned, "none" while it runs
    w_status,       \* the status of the Report of the last pipeline run
    w_kept,         \* whether the last failed input was left in the watched directory
    w_stale,        \* whether the watched directory holds an input that failed and was not written since
    w_reran         \* whether the pipeline was run again on such an input

smpVars == <<s_seg, s_n, s_out, s_done>>
expVars == <<paths, scale, bezier_samples, prefer_splines, pc, doc, k, pts,
             emitted, file0, out_file, io_ops, result>>
trfVars == <<t_in, t_out, t_done>>
vecVars == <<v_binary, v_debug, v_which, v_pc, v_scratch, v_created, v_input,
             v_svg, v_launched, v_proc, v_debug_file, v_result>>
sclVars == <<c_cfg, c_out, c_done>>
metVars == <<m_file, m_out, m_done>>
segVars == <<h_in, h_out, h_done>>
pipVars == <<p_cfg, p_pc, p_mm, p_masks, p_traced, p_outline, p_holes, p_export, p_dxf, p_exc, p_report_file, p_ret>>
watVars == <<w_checks, w_file, w_failed, w_events, w_other, w_pc, w_i, w_last, w_seen, w_missed, w_stable, w_status, w_kept, w_stale, w_reran>>
vars == <<smpVars, expVars, trfVars, vecVars, sclVars, metVars, segVars, pipVars, watVars>>

\* What the actions of one component leave alone: the other components.
notSmp == <<expVars, trfVars, vecVars, sclVars, metVars, segVars, pipVars, watVars>>
notExp == <<smpVars, trfVars, vecVars, sclVars, metVars, segVars, pipVars, watVars>>
notTrf == <<smpVars, expVars, vecVars, sclVars, metVars, segVars, pipVars, watVars>>
notVec == <<smpVars, expVars, trfVars, sclVars, metVars, segVars, pipVars, watVars>>
notScl == <<smpVars, expVars, trfVars, vecVars, metVars, segVars, pipVars, watVars>>
notMet == <<smpVars, expVars, trfVars, vecVars, sclVars, segVars, pipVars, watVars>>
notSeg == <<smpVars, expVars, trfVars, vecVars, sclVars, metVars, pipVars, watVars>>
notPip == <<smpVars, expVars, trfVars, vecVars, sclVars, metVars, segVars, watVars>>
notWat == <<smpVars, expVars, trfVars, vecVars, sclVars, metVars, segVars, pipVars>>

\* ------------------------------------------------------------- arithmetic
\* a / b rounded to the nearest integer (ties up), b > 0.
RoundDiv(a, b) == (2 * a + b) \div (2 * b)

\* The float 1.0 and the float of a small int.
One == Prec
FInt(i) == i * Prec

\* i / n of two ints (true division): a float in 1/Prec.
FDiv(i, n) == RoundDiv(i * Prec, n)

\* Product of two floats of which a is dimensionless: rounded to b's grid.
FMul(a, b) == RoundDiv(a * b, Prec)

\* a ** e for a dimensionless float and a literal exponent, rounded once.
FPow(a, e) == RoundDiv(a ^ e, Prec ^ (e - 1))

Abs(x) == IF x < 0 THEN -x ELSE x

\* ------------------------------------------------------------ CurveSampler
\* A sampler that steps by a rounded 1/n instead of dividing i by n.
ParamAtByStep(i, n) == FMul(FInt(i), FDiv(1, n))

\* Line 17: the parameter of sample i of n.
ParamAt(i, n) == FDiv(i, n)

\* Lines 18-20: one coordinate of the cubic at parameter t.
CubicCoord(c0, c1, c2, c3, t) ==
    LET mt == One - t
    IN  FMul(FPow(mt, 3), c0)
        + FMul(FMul(FMul(FInt(3), FPow(mt, 2)), t), c1)
        + FMul(FMul(FMul(FInt(3), mt), FPow(t, 2)), c2)
        + FMul(FPow(t, 3), c3)

\* Lines 29-31: one coordinate of the quadratic at parameter t.
QuadCoord(c0, c1, c2, t) ==
    LET mt == One - t
    IN  FMul(FPow(mt, 2), c0)
        + FMul(FMul(FMul(FInt(2), mt), t), c1)
        + FMul(FPow(t, 2), c2)

\* range(n + 1) of lines 16 and 27, as the indices 1..n+1 of the result.
SampleRange(n) == 1 .. (n + 1)

sample_cubic_bezier(p0, p1, p2, p3, n) ==
    [i \in SampleRange(n) |->
        LET t == ParamAt(i - 1, n)
        IN  <<CubicCoord(p0[1], p1[1], p2[1], p3[1], t),
              CubicCoord(p0[2], p1[2], p2[2], p3[2], t)>>]

sample_quad_bezier(p0, p1, p2, n) ==
    [i \in SampleRange(n) |->
        LET t == ParamAt(i - 1, n)
        IN  <<QuadCoord(p0[1], p1[1], p2[1], t),
              QuadCoord(p0[2], p1[2], p2[2], t)>>]

\* seg.pts[-1]
LastOf(s) == s[Len(s)]

\* _segment_to_points, for a segment with at least one point (an empty
\* point list makes seg.pts[0] raise IndexError: see SegRaises).
segment_to_points(seg, samples) ==
    IF seg.kind = "line"
    THEN <<seg.pts[1], LastOf(seg.pts)>>
    ELSE IF seg.kind = "cubic_bezier" /\ Len(seg.pts) = 4
    THEN sample_cubic_bezier(seg.pts[1], seg.pts[2], seg.pts[3], seg.pts[4], samples)
    ELSE IF seg.kind = "quad_bezier" /\ Len(seg.pts) = 3
    THEN sample_quad_bezier(seg.pts[1], seg.pts[2], seg.pts[3], samples)
    ELSE <<seg.pts[1], LastOf(seg.pts)>>

\* seg.pts[0] of lines 38 and 47 raises IndexError on an empty point list.
SegRaises(seg) == Len(seg.pts) = 0


\* ------------------------------------------------------------- DxfExporter
\* No document yet (before ezdxf.new).
NoDoc == [created |-> FALSE, layers |-> {}, entities |-> << >>]
\* No file at out_path.
Absent == [exists |-> FALSE, complete |-> FALSE, layers |-> {}, entities |-> << >>]

\* The layers line 71 always adds.
RequiredLayers == {"OUTLINE", "HOLES", "REF"}
\* The layers ezdxf.new() declares by itself (line 66).
DefaultLayers == {"0", "Defpoints"}

\* _almost_same (lines 116-117).
almost_same(a, b) == Abs(a[1] - b[1]) <= Eps /\ Abs(a[2] - b[2]) <= Eps

\* seg_pts[1:]
Rest(s) == IF Len(s) = 0 THEN << >> ELSE Tail(s)

\* A junction test by exact equality instead of the tolerance.
ExtendPtsExact(acc, seg_pts) ==
    IF Len(acc) > 0 /\ Len(seg_pts) > 0 /\ LastOf(acc) = seg_pts[1]
    THEN acc \o Rest(seg_pts)
    ELSE acc \o seg_pts

\* Lines 87-94: append one segment's samples to the point stream.
ExtendPts(acc, seg_pts) ==
    IF Len(acc) > 0 /\ Len(seg_pts) > 0
    THEN IF almost_same(LastOf(acc), seg_pts[1])
         THEN acc \o Rest(seg_pts)
         ELSE acc \o seg_pts
    ELSE acc \o seg_pts

\* Lines 78-94: the point stream after the first i segments of segs.
RECURSIVE PathPts(_, _, _)
PathPts(segs, i, n) ==
    IF i = 0 THEN << >>
    ELSE ExtendPts(PathPts(segs, i - 1, n), segment_to_points(segs[i], n))

\* Lines 79, 84-85: has_curve after the loop over the segments.
HasCurve(segs) ==
    \E i \in 1 .. Len(segs) : segs[i].kind \in {"cubic_bezier", "quad_bezier"}

\* Line 82 raises IndexError in the first segment that has no points.
PathRaises(vp) == \E i \in 1 .. Len(vp.segments) : SegRaises(vp.segments[i])

\* Line 97: pts_mm.
ScalePts(ps, sc) == [i \in 1 .. Len(ps) |-> <<FMul(sc, ps[i][1]), FMul(sc, ps[i][2])>>]

\* A spline only for more than four points.
EntityTypeStrict(prefer, has_curve, npts) ==
    IF prefer /\ has_curve /\ npts > 4 THEN "SPLINE" ELSE "LWPOLYLINE"

\* Line 104: the entity type chosen for a non-empty point stream.
EntityType(prefer, has_curve, npts) ==
    IF prefer /\ has_curve /\ npts >= 4 THEN "SPLINE" ELSE "LWPOLYLINE"

\* An entity left on the default layer.
MakeEntityOnZero(vp, pts_mm, prefer) ==
    [dxftype |-> EntityType(prefer, HasCurve(vp.segments), Len(pts_mm)),
     layer   |-> "0",
     closed  |-> vp.is_closed,
     points  |-> pts_mm]

\* Lines 102-111: the entity added to the modelspace for path vp.
MakeEntity(vp, pts_mm, prefer) ==
    [dxftype |-> EntityType(prefer, HasCurve(vp.segments), Len(pts_mm)),
     layer   |-> vp.layer,
     closed  |-> vp.is_closed,
     points  |-> pts_mm]

\* A check that lets a zero scale through.
ScaleRejectedNegativeOnly(sc) == sc < 0

\* Line 63.
ScaleRejected(sc) == sc <= 0

\* Only the layers the paths use.
LayersOfPathsOnly(ps) == {ps[i].layer : i \in 1 .. Len(ps)}

\* Line 71: the layers the call makes sure exist.
LayersToDeclare(ps) == {ps[i].layer : i \in 1 .. Len(ps)} \cup RequiredLayers

\* Lines 63-64: scale <= 0 raises before anything else happens.
ExpReject ==
    /\ UNCHANGED notExp
    /\ pc = "start"
    /\ ScaleRejected(scale)
    /\ result' = "ValueError"
    /\ pc' = "done"
    /\ UNCHANGED <<paths, scale, bezier_samples, prefer_splines, doc, k, pts,
                   emitted, file0, out_file, io_ops>>

\* Lines 66-74: a new in-memory document with every layer declared.
ExpNewDoc ==
    /\ UNCHANGED notExp
    /\ pc = "start"
    /\ ~ScaleRejected(scale)
    /\ doc' = [created |-> TRUE,
               layers |-> DefaultLayers \cup LayersToDeclare(paths),
               entities |-> << >>]
    /\ pc' = "loop"
    /\ UNCHANGED <<paths, scale, bezier_samples, prefer_splines, k, pts,
                   emitted, file0, out_file, io_ops, result>>

\* Lines 76-111: one iteration of the loop over the paths.
ExpPath ==
    /\ UNCHANGED notExp
    /\ pc = "loop"
    /\ k < Len(paths)
    /\ LET vp == paths[k + 1]
       IN  IF PathRaises(vp)
           THEN /\ result' = "IndexError"
                /\ pc' = "done"
                /\ UNCHANGED <<doc, k, pts, emitted>>
           ELSE LET ps == PathPts(vp.segments, Len(vp.segments), bezier_samples)
                    pts_mm == ScalePts(ps, scale)
                IN  /\ pts' = ps
                    /\ k' = k + 1
                    /\ IF Len(pts_mm) = 0
                       THEN /\ emitted' = Append(emitted, 0)
                            /\ UNCHANGED doc
                       ELSE /\ doc' = [doc EXCEPT !.entities =
                                          Append(@, MakeEntity(vp, pts_mm, prefer_splines))]
                            /\ emitted' = Append(emitted, Len(doc.entities) + 1)
                    /\ UNCHANGED <<pc, result>>
    /\ UNCHANGED <<paths, scale, bezier_samples, prefer_splines, file0,
                   out_file, io_ops>>

\* What doc.saveas leaves at out_path when it completes: every section and
\* the terminating EOF.
CompleteFile(d) ==
    [exists |-> TRUE, complete |-> TRUE, layers |-> d.layers, entities |-> d.entities]

\* What it leaves when writing stops after j entities: no EOF.
TruncatedFile(d, j) ==
    [exists |-> TRUE, complete |-> FALSE, layers |-> d.layers,
     entities |-> SubSeq(d.entities, 1, j)]

\* Line 113, the drawing is written.
ExpSaveOk ==
    /\ UNCHANGED notExp
    /\ pc = "loop"
    /\ k = Len(paths)
    /\ out_file' = CompleteFile(doc)
    /\ io_ops' = io_ops + 1
    /\ result' = "ok"
    /\ pc' = "done"
    /\ UNCHANGED <<paths, scale, bezier_samples, prefer_splines, doc, k, pts,
                   emitted, file0>>

\* Line 113, out_path cannot be opened for writing (no such directory, no
\* permission): OSError, nothing is written.
ExpSaveOpenFails ==
    /\ UNCHANGED notExp
    /\ pc = "loop"
    /\ k = Len(paths)
    /\ io_ops' = io_ops + 1
    /\ result' = "OSError"
    /\ pc' = "done"
    /\ UNCHANGED <<paths, scale, bezier_samples, prefer_splines, doc, k, pts,
                   emitted, file0, out_file>>

\* Line 113, out_path is opened (and so truncated) and a write fails (disk
\* full, device error): OSError, the file keeps what was written so far.
ExpSaveWriteFails ==
    /\ UNCHANGED notExp
    /\ pc = "loop"
    /\ k = Len(paths)
    /\ \E j \in 0 .. Len(doc.entities) : out_file' = TruncatedFile(doc, j)
    /\ io_ops' = io_ops + 1
    /\ result' = "OSError"
    /\ pc' = "done"
    /\ UNCHANGED <<paths, scale, bezier_samples, prefer_splines, doc, k, pts,
                   emitted, file0>>

\* ------------------------------------------------------- inputs of the model
SeqsUpTo(S, n) == UNION {[1 .. m -> S] : m \in 0 .. n}

Layers == {"OUTLINE", "HOLES", "CUSTOM"}

\* Pixel points, in units of 1e-6 px.  PB2 lies within Eps of PB.
PA == <<0, 0>>
PB == <<4, 0>>
PB2 == <<5, 1>>
PC == <<4, 4>>
PD == <<0, 4>>

Seg(kind, ps) == [kind |-> kind, pts |-> ps]

\* The segments paths are built from: well formed ones, a zero-length line,
\* a line starting within tolerance of PB, and two malformed ones (a cubic
\* with two points, a line with none).
SegUniverse ==
    { Seg("line", <<PA, PB>>),
      Seg("line", <<PB, PC>>),
      Seg("line", <<PB2, PD>>),
      Seg("line", <<PC, PC>>),
      Seg("quad_bezier", <<PB, PC, PD>>),
      Seg("cubic_bezier", <<PA, PB, PC, PD>>),
      Seg("cubic_bezier", <<PC, PD>>),
      Seg("line", << >>) }

Path(segs, closed, layer) == [segments |-> segs, is_closed |-> closed, layer |-> layer]

\* Every path of at most MaxSegs segments, closed on CUSTOM or open on OUTLINE.
PathUniverse ==
    {Path(sg, cl[1], cl[2]) : sg \in SeqsUpTo(SegUniverse, MaxSegs),
                              cl \in {<<TRUE, "CUSTOM">>, <<FALSE, "OUTLINE">>}}

\* The paths of the multi-path specification: at most one segment each.
SmallPaths ==
    {Path(sg, c, l) :
        sg \in { << >>, <<Seg("line", <<PA, PB>>)>>,
                 <<Seg("cubic_bezier", <<PA, PB, PC, PD>>)>>,
                 <<Seg("line", << >>)>> },
        c \in {TRUE}, l \in Layers}

Scales == {-One, 0, One \div 2, One}

\* A complete drawing an earlier run left at out_path.
OldFile == [exists |-> TRUE, complete |-> TRUE,
            layers |-> DefaultLayers \cup RequiredLayers, entities |-> << >>]

ExpInitCommon ==
    /\ scale \in Scales
    /\ bezier_samples \in 1 .. MaxSamples
    /\ prefer_splines \in BOOLEAN
    /\ pc = "start"
    /\ doc = NoDoc
    /\ k = 0
    /\ pts = << >>
    /\ emitted = << >>
    /\ file0 \in {Absent, OldFile}
    /\ out_file = file0
    /\ io_ops = 0
    /\ result = "none"

\* ------------------------------------------------- CurveSampler, one call
SamplePoints == {<<x, y>> : x \in -MaxCoord .. MaxCoord, y \in {0, MaxCoord}}

SmpIdle ==
    /\ s_seg = Seg("line", <<PA, PB>>)
    /\ s_n = 1
    /\ s_out = << >>
    /\ s_done = FALSE

SmpInit ==
    /\ s_seg \in {Seg("cubic_bezier", ps) : ps \in [1 .. 4 -> SamplePoints]}
            \cup {Seg("quad_bezier", ps) : ps \in [1 .. 3 -> SamplePoints]}
            \cup {Seg("line", ps) : ps \in [1 .. 2 -> SamplePoints]}
    /\ s_n \in 1 .. MaxSamples
    /\ s_out = << >>
    /\ s_done = FALSE

\* One call of _segment_to_points.
SmpCall ==
    /\ ~s_done
    /\ s_out' = segment_to_points(s_seg, s_n)
    /\ s_done' = TRUE
    /\ UNCHANGED <<s_seg, s_n>>
    /\ UNCHANGED notSmp

\* --------------------------------------------------- AffineTransformParser
\* A transform string is modelled as the list of its tokens name(args); an
\* argument is the text between separators: a number (its float value, here
\* always integral, so that float arithmetic on it is exact) or text that is
\* no number.
Num(v) == [num |-> TRUE, val |-> v]
NotANumber == [num |-> FALSE, val |-> 0]
Tok(name, args) == [name |-> name, args |-> args]

\* _affine_identity (lines 28-29).
affine_identity == <<1, 0, 0, 1, 0, 0>>

\* The product taken in the other order.
affine_mul_swapped(m1, m2) ==
    << m2[1] * m1[1] + m2[3] * m1[2],
       m2[2] * m1[1] + m2[4] * m1[2],
       m2[1] * m1[3] + m2[3] * m1[4],
       m2[2] * m1[3] + m2[4] * m1[4],
       m2[1] * m1[5] + m2[3] * m1[6] + m2[5],
       m2[2] * m1[5] + m2[4] * m1[6] + m2[6] >>

\* _affine_mul (lines 32-43); a matrix is <<a, b, c, d, e, f>>.
affine_mul(m1, m2) ==
    << m1[1] * m2[1] + m1[3] * m2[2],
       m1[2] * m2[1] + m1[4] * m2[2],
       m1[1] * m2[3] + m1[3] * m2[4],
       m1[2] * m2[3] + m1[4] * m2[4],
       m1[1] * m2[5] + m1[3] * m2[6] + m1[5],
       m1[2] * m2[5] + m1[4] * m2[6] + m1[6] >>

\* _affine_apply (lines 46-48).
affine_apply(m, p) ==
    <<m[1] * p[1] + m[3] * p[2] + m[5], m[2] * p[1] + m[4] * p[2] + m[6]>>

\* _transform_re (line 51): the names finditer matches.
TransformNames == {"translate", "scale", "matrix"}

\* Line 69: the tokens the regular expression matches, in order.
Matches(tokens) == SelectSeq(tokens, LAMBDA tk : tk.name \in TransformNames)

\* Line 71: float(x) raises ValueError on an argument that is no number.
ArgsRaise(tk) == \E i \in 1 .. Len(tk.args) : ~tk.args[i].num

\* Line 71: args.
ArgValues(tk) == [i \in 1 .. Len(tk.args) |-> tk.args[i].val]

\* Lines 73-87: the matrices one match appends to mats (none or one).
MatsOf(tk) ==
    LET args == ArgValues(tk)
    IN  IF tk.name = "translate"
        THEN LET tx == IF Len(args) >= 1 THEN args[1] ELSE 0
                 ty == IF Len(args) >= 2 THEN args[2] ELSE 0
             IN  << <<1, 0, 0, 1, tx, ty>> >>
        ELSE IF tk.name = "scale"
        THEN LET sx == IF Len(args) >= 1 THEN args[1] ELSE 1
                 sy == IF Len(args) >= 2 THEN args[2] ELSE sx
             IN  << <<sx, 0, 0, sy, 0, 0>> >>
        ELSE IF tk.name = "matrix"
        THEN IF Len(args) # 6
             THEN << >>
             ELSE << <<args[1], args[2], args[3], args[4], args[5], args[6]>> >>
        ELSE << >>

\* Lines 68-87: mats after the first i matches.
RECURSIVE MatsUpTo(_, _)
MatsUpTo(ms, i) == IF i = 0 THEN << >> ELSE MatsUpTo(ms, i - 1) \o MatsOf(ms[i])

\* Lines 90-92: out after the loop has taken the last i matrices of mats,
\* last one first.
RECURSIVE ComposeLast(_, _)
ComposeLast(mats, i) ==
    IF i = 0 THEN affine_identity
    ELSE affine_mul(mats[Len(mats) - i + 1], ComposeLast(mats, i - 1))

Returned(m) == [raised |-> "none", m |-> m]
Raised(e) == [raised |-> e, m |-> affine_identity]

\* _parse_transform_list (lines 54-93).
parse_transform_list(tokens) ==
    IF Len(tokens) = 0
    THEN Returned(affine_identity)
    ELSE LET ms == Matches(tokens)
         IN  IF \E i \in 1 .. Len(ms) : ArgsRaise(ms[i])
             THEN Raised("ValueError")
             ELSE LET mats == MatsUpTo(ms, Len(ms))
                  IN  Returned(ComposeLast(mats, Len(mats)))

\* One call of _parse_transform_list.
TrfCall ==
    /\ ~t_done
    /\ t_out' = parse_transform_list(t_in)
    /\ t_done' = TRUE
    /\ UNCHANGED t_in
    /\ UNCHANGED notTrf

\* The tokens transform strings are built from: the two of the documented
\* example, tokens with a defaulted argument, a matrix that does not commute
\* with them, and malformed ones (a matrix of 3 arguments, an unknown name,
\* an argument that is no number, no argument at all).
TokUniverse ==
    { Tok("translate", <<Num(5), Num(0)>>),
      Tok("scale", <<Num(2)>>),
      Tok("translate", <<Num(3)>>),
      Tok("scale", <<Num(2), Num(3)>>),
      Tok("matrix", <<Num(0), Num(1), Num(-1), Num(0), Num(1), Num(2)>>),
      Tok("matrix", <<Num(1), Num(2), Num(3)>>),
      Tok("rotate", <<Num(45)>>),
      Tok("translate", <<NotANumber, Num(0)>>),
      Tok("scale", << >>) }

TrfIdle == t_in = << >> /\ t_out = Returned(affine_identity) /\ t_done = FALSE

TrfInit ==
    /\ t_in \in SeqsUpTo(TokUniverse, MaxTokens)
    /\ t_out = Returned(affine_identity)
    /\ t_done = FALSE

\* ---------------------------------------------------- VectorizationAdapter
\* Scratch paths: a temporary directory, or a file in one.
TmpDir(d) == [dir |-> d, name |-> ""]
TmpFile(d, n) == [dir |-> d, name |-> n]
\* The directory of line 219 (holds out.svg) and of line 136 (holds input.pgm).
OuterDir == "td_outer"
InnerDir == "td_inner"

\* A cleanup that removes the directory entry and leaves its files.
ExitTempDirOnly(fs, d) == fs \ {TmpDir(d)}

\* TemporaryDirectory.__exit__ of the with blocks of lines 136 and 219, on a
\* normal exit and on an exception alike: the directory and all it holds.
ExitTempDir(fs, d) == {f \in fs : f.dir # d}

\* Text is a list of characters; these are the white space ones.
WhiteSpace == {" ", "\n"}

\* str.strip() (line 147).
RECURSIVE LStrip(_)
LStrip(s) == IF Len(s) > 0 /\ Head(s) \in WhiteSpace THEN LStrip(Tail(s)) ELSE s
RECURSIVE RStrip(_)
RStrip(s) ==
    IF Len(s) > 0 /\ s[Len(s)] \in WhiteSpace THEN RStrip(SubSeq(s, 1, Len(s) - 1)) ELSE s
Strip(s) == RStrip(LStrip(s))

NoError == [type |-> "none", text |-> "", rc |-> 0, diag |-> << >>]
NoResult == [status |-> "none", paths |-> << >>, error |-> NoError]
VecRaise(type, text, rc, diag) ==
    [status |-> "raised", paths |-> << >>,
     error |-> [type |-> type, text |-> text, rc |-> rc, diag |-> diag]]
VecReturn(ps) == [status |-> "returned", paths |-> ps, error |-> NoError]

\* A process that failed but whose negative code alone counts.
RunFailedNegativeOnly(rc) == rc < 0

\* Line 145.
RunFailed(rc) == rc # 0

\* Line 140: inv = 255 - binary.
Invert(binary) == [i \in 1 .. Len(binary) |-> 255 - binary[i]]

\* No file at out.svg, and no file at debug_svg_path.
NoSvg == [exists |-> FALSE, xml_ok |-> FALSE, transform |-> << >>, paths |-> << >>]
NoDebugFile == [exists |-> FALSE, text |-> NoSvg]

\* Lines 173-204: one svgpathtools segment as a PathSegment, every point
\* mapped by the group transform gxf.  A segment is its class and its
\* points, start first and end last.
SvgSegment(seg, gxf) ==
    LET map(ps) == [i \in 1 .. Len(ps) |-> affine_apply(gxf, ps[i])]
    IN  IF seg.cls = "Line"
        THEN Seg("line", map(<<seg.pts[1], LastOf(seg.pts)>>))
        ELSE IF seg.cls = "CubicBezier"
        THEN Seg("cubic_bezier", map(seg.pts))
        ELSE IF seg.cls = "QuadraticBezier"
        THEN Seg("quad_bezier", map(seg.pts))
        ELSE Seg("line", map(<<seg.pts[1], LastOf(seg.pts)>>))

\* Lines 167-208: the VectorPaths of the path elements, all on `layer`.
SvgPaths(svg, gxf, layer) ==
    [i \in 1 .. Len(svg.paths) |->
        Path([j \in 1 .. Len(svg.paths[i].segs) |-> SvgSegment(svg.paths[i].segs[j], gxf)],
             svg.paths[i].closed, layer)]

\* _extract_group_transform (lines 96-109): identity when the text is no
\* XML or has no group transform, else the parsed transform list.
extract_group_transform(svg) ==
    IF ~svg.xml_ok THEN Returned(affine_identity)
    ELSE IF Len(svg.transform) = 0 THEN Returned(affine_identity)
    ELSE parse_transform_list(svg.transform)

\* svg_to_paths (lines 151-208) on the file out.svg.
svg_to_paths(svg) ==
    IF ~svg.exists
    THEN VecRaise("FileNotFoundError", "out.svg", 0, << >>)
    ELSE LET gxf == extract_group_transform(svg)
         IN  IF gxf.raised # "none"
             THEN VecRaise(gxf.raised, "float", 0, << >>)
             ELSE IF ~svg.xml_ok
             THEN VecRaise("ParseError", "svg2paths2", 0, << >>)
             ELSE VecReturn(SvgPaths(svg, gxf.m, "OUTLINE"))

\* Line 219: the outer temporary directory is created.
VecEnter ==
    /\ UNCHANGED notVec
    /\ v_pc = "start"
    /\ v_scratch' = v_scratch \cup {TmpDir(OuterDir)}
    /\ v_created' = v_created \cup {TmpDir(OuterDir)}
    /\ v_pc' = "entered"
    /\ UNCHANGED <<v_binary, v_debug, v_which, v_input, v_svg, v_launched, v_proc,
                   v_debug_file, v_result>>

\* Lines 133, 117-121: potrace is not on the PATH; RuntimeError leaves the
\* with block of line 219.
VecEngineMissing ==
    /\ UNCHANGED notVec
    /\ v_pc = "entered"
    /\ ~v_which
    /\ v_result' = VecRaise("RuntimeError", "potrace not found", 0, << >>)
    /\ v_scratch' = ExitTempDir(v_scratch, OuterDir)
    /\ v_pc' = "done"
    /\ UNCHANGED <<v_binary, v_debug, v_which, v_created, v_input, v_svg,
                   v_launched, v_proc, v_debug_file>>

\* Lines 133-141: potrace is found; the inner temporary directory is created
\* and the inverted mask is written to input.pgm.  cv2.imwrite reports a
\* failure by its return value, which the code does not read.
VecStage ==
    /\ UNCHANGED notVec
    /\ v_pc = "entered"
    /\ v_which
    /\ \E written \in BOOLEAN :
          LET new == {TmpDir(InnerDir)}
                     \cup (IF written THEN {TmpFile(InnerDir, "input.pgm")} ELSE {})
          IN  /\ v_scratch' = v_scratch \cup new
              /\ v_created' = v_created \cup new
              /\ v_input' = IF written THEN Invert(v_binary) ELSE << >>
    /\ v_pc' = "staged"
    /\ UNCHANGED <<v_binary, v_debug, v_which, v_svg, v_launched, v_proc,
                   v_debug_file, v_result>>

\* What the engine can do (a black box): its return codes, its stderr texts
\* and what it leaves at out.svg.
ExitCodes == {0, 1, -9}
StderrTexts == { << >>, <<" ", "E", "\n">>, <<"E", " ", "F">> }

SvgLine(a, b) == [cls |-> "Line", pts |-> <<a, b>>]
SvgGarbage == [exists |-> TRUE, xml_ok |-> FALSE, transform |-> << >>, paths |-> << >>]
SvgBlank == [exists |-> TRUE, xml_ok |-> TRUE, transform |-> << >>, paths |-> << >>]
\* potrace's usual output: a flip about the x axis, one closed path.
SvgFlipped ==
    [exists |-> TRUE, xml_ok |-> TRUE,
     transform |-> <<Tok("translate", <<Num(0), Num(4)>>),
                     Tok("scale", <<Num(1), Num(-1)>>)>>,
     paths |-> << [segs |-> << SvgLine(<<0, 0>>, <<4, 0>>),
                              [cls |-> "CubicBezier",
                               pts |-> << <<4, 0>>, <<4, 2>>, <<2, 4>>, <<0, 0>> >>] >>,
                   closed |-> TRUE] >>]
SvgPlain ==
    [exists |-> TRUE, xml_ok |-> TRUE, transform |-> << >>,
     paths |-> << [segs |-> << [cls |-> "QuadraticBezier",
                               pts |-> << <<0, 0>>, <<2, 2>>, <<4, 0>> >>],
                              [cls |-> "Arc", pts |-> << <<4, 0>>, <<0, 0>> >>] >>,
                   closed |-> FALSE] >>]
SvgBadTransform ==
    [exists |-> TRUE, xml_ok |-> TRUE,
     transform |-> <<Tok("translate", <<NotANumber>>)>>,
     paths |-> << [segs |-> << SvgLine(<<0, 0>>, <<4, 0>>) >>, closed |-> FALSE] >>]
SvgOutcomes == {NoSvg, SvgGarbage, SvgBlank, SvgFlipped, SvgPlain, SvgBadTransform}

\* Lines 143-148: the engine runs to its end; a non-zero return code raises
\* RuntimeError with the stripped stderr.  The with block of line 136 is
\* left either way, the one of line 219 by the exception.  An engine that
\* finds no input.pgm to read fails.
VecRun ==
    /\ UNCHANGED notVec
    /\ v_pc = "staged"
    /\ \E rc \in ExitCodes, err \in StderrTexts, out \in SvgOutcomes :
          LET new == IF out.exists THEN {TmpFile(OuterDir, "out.svg")} ELSE {}
              fs == ExitTempDir(v_scratch \cup new, InnerDir)
          IN  /\ (TmpFile(InnerDir, "input.pgm") \notin v_scratch) => rc # 0
              /\ v_launched' = v_launched + 1
              /\ v_proc' = [rc |-> rc, stderr |-> err]
              /\ v_svg' = out
              /\ v_created' = v_created \cup new
              /\ IF RunFailed(rc)
                 THEN /\ v_result' = VecRaise("RuntimeError", "potrace failed", rc, Strip(err))
                      /\ v_scratch' = ExitTempDir(fs, OuterDir)
                      /\ v_pc' = "done"
                 ELSE /\ v_scratch' = fs
                      /\ v_pc' = "traced"
                      /\ UNCHANGED v_result
    /\ UNCHANGED <<v_binary, v_debug, v_which, v_input, v_debug_file>>

\* Lines 224-229: the text of out.svg is copied to debug_svg_path.  Reading
\* a missing out.svg raises FileNotFoundError, a debug location that cannot
\* be written raises OSError; both leave the with block of line 219.
VecDebug ==
    /\ UNCHANGED notVec
    /\ v_pc = "traced"
    /\ v_debug
    /\ \E writable \in BOOLEAN :
          IF ~writable
          THEN /\ v_result' = VecRaise("OSError", "debug_svg_path", 0, << >>)
               /\ v_scratch' = ExitTempDir(v_scratch, OuterDir)
               /\ v_pc' = "done"
               /\ UNCHANGED v_debug_file
          ELSE IF ~v_svg.exists
          THEN /\ v_result' = VecRaise("FileNotFoundError", "out.svg", 0, << >>)
               /\ v_scratch' = ExitTempDir(v_scratch, OuterDir)
               /\ v_pc' = "done"
               /\ UNCHANGED v_debug_file
          ELSE /\ v_debug_file' = [exists |-> TRUE, text |-> v_svg]
               /\ v_pc' = "copied"
               /\ UNCHANGED <<v_result, v_scratch>>
    /\ UNCHANGED <<v_binary, v_debug, v_which, v_created, v_input, v_svg,
                   v_launched, v_proc>>

\* Line 231: out.svg is parsed and the paths returned, or the parse raises;
\* the with block of line 219 is left.
VecParse ==
    /\ UNCHANGED notVec
    /\ \/ v_pc = "copied"
       \/ v_pc = "traced" /\ ~v_debug
    /\ v_result' = svg_to_paths(v_svg)
    /\ v_scratch' = ExitTempDir(v_scratch, OuterDir)
    /\ v_pc' = "done"
    /\ UNCHANGED <<v_binary, v_debug, v_which, v_created, v_input, v_svg,
                   v_launched, v_proc, v_debug_file>>

NoProc == [rc |-> 0, stderr |-> << >>]

VecIdle ==
    /\ v_binary = << >> /\ v_debug = FALSE /\ v_which = FALSE /\ v_pc = "idle"
    /\ v_scratch = {} /\ v_created = {} /\ v_input = << >> /\ v_svg = NoSvg
    /\ v_launched = 0 /\ v_proc = NoProc /\ v_debug_file = NoDebugFile
    /\ v_result = NoResult

VecInit ==
    /\ v_binary \in [1 .. 2 -> {0, 255}]
    /\ v_debug \in BOOLEAN
    /\ v_which \in BOOLEAN
    /\ v_pc = "start"
    /\ v_scratch = {} /\ v_created = {} /\ v_input = << >> /\ v_svg = NoSvg
    /\ v_launched = 0 /\ v_proc = NoProc /\ v_debug_file = NoDebugFile
    /\ v_result = NoResult

\* --------------------------------------------------------- ScaleCalibrator
\* An Optional[float] of the PipelineConfig: None, or a float in 1/Prec.
NoneF == [set |-> FALSE, val |-> 0]
SomeF(v) == [set |-> TRUE, val |-> v]

ScaleReturn(v) == [status |-> "returned", val |-> v, error |-> "none", text |-> ""]
ScaleRaise(text) == [status |-> "raised", val |-> 0, error |-> "ValueError", text |-> text]
NoScale == [status |-> "none", val |-> 0, error |-> "none", text |-> ""]

\* A quotient taken the wrong way round.
ScaleFromRefsInverted(mm, px) == RoundDiv(px * One, mm)

\* Line 26: float(ref_mm) / float(ref_px), one rounded float division.  A
\* quotient too small for the float format comes out as 0.0.
ScaleFromRefs(mm, px) == RoundDiv(mm * One, px)

\* compute_mm_per_px, lines 12-26.
compute_mm_per_px(cfg) ==
    IF cfg.mm_per_px.set
    THEN IF cfg.mm_per_px.val <= 0
         THEN ScaleRaise("mm_per_px must be > 0")
         ELSE ScaleReturn(cfg.mm_per_px.val)
    ELSE IF ~cfg.ref_mm.set \/ ~cfg.ref_px.set
    THEN ScaleRaise("Missing scale reference")
    ELSE IF cfg.ref_mm.val <= 0 \/ cfg.ref_px.val <= 0
    THEN ScaleRaise("ref_mm and ref_px must be > 0")
    ELSE ScaleReturn(ScaleFromRefs(cfg.ref_mm.val, cfg.ref_px.val))

\* The values a scale field is given: omitted, negative, zero, the smallest
\* positive float, 1.0, 100.0 and 200.0.
ScaleFields ==
    {NoneF} \cup {SomeF(v) : v \in {-One, 0, 1, One, 100 * One, 200 * One}}

SclIdle ==
    /\ c_cfg = [mm_per_px |-> NoneF, ref_mm |-> NoneF, ref_px |-> NoneF]
    /\ c_out = NoScale
    /\ c_done = FALSE

SclInit ==
    /\ c_cfg \in [mm_per_px : ScaleFields, ref_mm : ScaleFields, ref_px : ScaleFields]
    /\ c_out = NoScale
    /\ c_done = FALSE

\* One call of compute_mm_per_px.
SclCall ==
    /\ UNCHANGED notScl
    /\ ~c_done
    /\ c_out' = compute_mm_per_px(c_cfg)
    /\ c_done' = TRUE
    /\ UNCHANGED c_cfg

\* ---------------------------------------------------------- DrawingMetrics
\* A float that may be infinite: the running minima and maxima of lines
\* 31-34 start at +inf and -inf.
Inf == [fin |-> FALSE, v |-> 0]
Fin(x) == [fin |-> TRUE, v |-> x]

\* min(a, x) and max(a, x) of lines 45-48, a being +inf or -inf at first.
MinF(a, x) == IF ~a.fin \/ x < a.v THEN Fin(x) ELSE a
MaxF(a, x) == IF ~a.fin \/ x > a.v THEN Fin(x) ELSE a

\* An entity as ezdxf hands it out: its type, its layer ("0" when the file
\* names none), its vertices (LWPOLYLINE) or fit points (SPLINE) or other
\* defining points (any other type), and its control points (SPLINE).
Entity(type, layer, points, ctrl) ==
    [dxftype |-> type, layer |-> layer, points |-> points, ctrl |-> ctrl]

\* An extraction that takes the points of whatever entity it is given.
extract_points_any(e) == IF Len(e.points) > 0 THEN e.points ELSE e.ctrl

\* _extract_points, lines 62-89.
extract_points(e) ==
    IF e.dxftype = "LWPOLYLINE"
    THEN e.points
    ELSE IF e.dxftype = "SPLINE"
    THEN IF Len(e.points) > 0 THEN e.points ELSE e.ctrl
    ELSE << >>

\* d[key] = d.get(key, 0) + 1 of lines 38 and 40.
Tally(d, key) ==
    IF key \in DOMAIN d THEN [d EXCEPT ![key] = @ + 1] ELSE d @@ (key :> 1)

\* Lines 44-48: the box after the first j points of ps.
RECURSIVE BoxFold(_, _, _)
BoxFold(box, ps, j) ==
    IF j = 0
    THEN box
    ELSE LET b == BoxFold(box, ps, j - 1)
         IN  [min_x |-> MinF(b.min_x, ps[j][1]), min_y |-> MinF(b.min_y, ps[j][2]),
              max_x |-> MaxF(b.max_x, ps[j][1]), max_y |-> MaxF(b.max_y, ps[j][2])]

\* Lines 28-48: the tallies and the box after the first i entities.
RECURSIVE MetricsFold(_, _)
MetricsFold(es, i) ==
    IF i = 0
    THEN [by_type |-> << >>, layers |-> << >>,
          box |-> [min_x |-> Inf, min_y |-> Inf, max_x |-> Inf, max_y |-> Inf]]
    ELSE LET a == MetricsFold(es, i - 1)
             ps == extract_points(es[i])
         IN  [by_type |-> Tally(a.by_type, es[i].dxftype),
              layers |-> Tally(a.layers, es[i].layer),
              box |-> BoxFold(a.box, ps, Len(ps))]

NoBox == <<Fin(0), Fin(0), Fin(0), Fin(0)>>
NoMetrics ==
    [status |-> "none", num_entities |-> 0, entities_by_type |-> << >>,
     layers |-> << >>, bbox_mm |-> NoBox]

\* compute_dxf_metrics, lines 23-59.  ezdxf.readfile raises on a missing
\* file and on one without its terminating structure.
compute_dxf_metrics(f) ==
    IF ~f.exists \/ ~f.complete
    THEN [NoMetrics EXCEPT !.status = "raised"]
    ELSE LET a == MetricsFold(f.entities, Len(f.entities))
         IN  [status |-> "returned",
              num_entities |-> Len(f.entities),
              entities_by_type |-> a.by_type,
              layers |-> a.layers,
              bbox_mm |-> IF ~a.box.min_x.fin
                          THEN NoBox
                          ELSE <<a.box.min_x, a.box.min_y, a.box.max_x, a.box.max_y>>]

\* The entities drawings are made of: a polyline, a spline with fit and
\* control points, a spline with control points only, a circle (a type
\* _extract_points does not know) on no layer of its own, a spline with no
\* points at all and a polyline with no vertex.  Coordinates are in mm.
EntityUniverse ==
    { Entity("LWPOLYLINE", "OUTLINE", << <<0, 0>>, <<4, 2>> >>, << >>),
      Entity("SPLINE", "HOLES", << <<-3, 1>>, <<1, 5>> >>, << <<9, 9>> >>),
      Entity("SPLINE", "OUTLINE", << >>, << <<-7, -7>>, <<2, 2>> >>),
      Entity("CIRCLE", "0", << <<20, 20>> >>, << >>),
      Entity("SPLINE", "HOLES", << >>, << >>),
      Entity("LWPOLYLINE", "HOLES", << >>, << >>) }

Drawing(es) ==
    [exists |-> TRUE, complete |-> TRUE,
     layers |-> DefaultLayers \cup RequiredLayers, entities |-> es]

NoDrawing == [exists |-> FALSE, complete |-> FALSE, layers |-> {}, entities |-> << >>]

MetIdle == m_file = NoDrawing /\ m_out = NoMetrics /\ m_done = FALSE

MetInit ==
    /\ m_file \in {Drawing(es) : es \in SeqsUpTo(EntityUniverse, MaxEntities)}
    /\ m_out = NoMetrics
    /\ m_done = FALSE

\* One call of compute_dxf_metrics.
MetCall ==
    /\ UNCHANGED notMet
    /\ ~m_done
    /\ m_out' = compute_dxf_metrics(m_file)
    /\ m_done' = TRUE
    /\ UNCHANGED m_file

\* ----------------------------------------------- export, then the metrics
\* What ezdxf.readfile makes of a file export_paths_to_dxf wrote: a
\* polyline comes back with its vertices, a spline with the fit points it
\* was given and no control point.
ReadEntity(e) == Entity(e.dxftype, e.layer, e.points, << >>)

ReadFile(f) ==
    [exists |-> f.exists, complete |-> f.complete, layers |-> f.layers,
     entities |-> [i \in 1 .. Len(f.entities) |-> ReadEntity(f.entities[i])]]

\* compute_dxf_metrics is called on out_path once the export has returned.
RtMetrics ==
    /\ UNCHANGED notMet
    /\ pc = "done"
    /\ result = "ok"
    /\ ~m_done
    /\ m_file' = ReadFile(out_file)
    /\ m_out' = compute_dxf_metrics(ReadFile(out_file))
    /\ m_done' = TRUE

\* ----------------------------------------------------------- MaskSegmenter
\* A mask is the set of its foreground (255) pixels <<row, col>>; a
\* grayscale image is a function from the pixels to 0 .. 255.
PixelsOf(h, w) == (0 .. h - 1) \X (0 .. w - 1)

\* cv2.findContours(mask, RETR_EXTERNAL, ...): the outer contours, one for
\* each connected region.  Every mask of this specification is empty or one
\* filled rectangle, which is one region.
Regions(mask) == IF mask = {} THEN {} ELSE {mask}

\* cv2.contourArea of the contour of a filled rectangle: the contour runs
\* through the centres of the border pixels, so a rectangle of h by w pixels
\* has the area (h - 1) * (w - 1).
ContourArea(r) ==
    LET rows == {p[1] : p \in r}
        cols == {p[2] : p \in r}
        span(S) == (CHOOSE x \in S : \A y \in S : x >= y)
                   - (CHOOSE x \in S : \A y \in S : x <= y)
    IN  span(rows) * span(cols)

\* Lines 32-36 and 67-73: the regions whose contour area reaches min_area,
\* drawn filled.
KeepLarge(mask, min_area) ==
    UNION {r \in Regions(mask) : ContourArea(r) >= min_area}

\* The histogram cv2.threshold takes of an 8-bit image.
Histogram(img, pixels) ==
    [l \in 0 .. White |-> Cardinality({p \in pixels : img[p] = l})]

\* a / b > c / d for a, c >= 0 and b, d > 0, by comparing the integer parts
\* and then the reciprocals of the fractional parts.
RECURSIVE FracGreater(_, _, _, _)
FracGreater(a, b, c, d) ==
    IF a \div b # c \div d
    THEN a \div b > c \div d
    ELSE IF a % b = 0
    THEN FALSE
    ELSE IF c % d = 0
    THEN TRUE
    ELSE FracGreater(d, c % d, b, a % b)

\* One step of the Otsu scan of cv2.threshold, at level i of histogram h (n
\* pixels, level sum s).  The scan keeps the pixel count n1 and level sum s1
\* of the levels up to i, and the level val that first reached the largest
\* between-class variance num / den found so far (0 and variance 0 before
\* any level splits the pixels in two non-empty classes).  The variance of
\* the split at level i is (s1 * n2 - s2 * n1)^2 / (n1 * n2), up to the
\* factor 1 / n^2 common to all levels.
OtsuStep(a, h, n, s, i) ==
    LET n1 == a.n1 + h[i]
        s1 == a.s1 + i * h[i]
        n2 == n - n1
        s2 == s - s1
        d == s1 * n2 - s2 * n1
    IN  IF n1 = 0 \/ n2 = 0
        THEN [a EXCEPT !.n1 = n1, !.s1 = s1]
        ELSE IF FracGreater(d * d, n1 * n2, a.num, a.den)
        THEN [n1 |-> n1, s1 |-> s1, val |-> i, num |-> d * d, den |-> n1 * n2]
        ELSE [a EXCEPT !.n1 = n1, !.s1 = s1]

\* The scan over the levels lo .. hi in rising order, starting from a: the
\* lower half first (low.n1 <= n always holds), then the upper half from
\* where the lower half ended.
RECURSIVE OtsuScan(_, _, _, _, _, _)
OtsuScan(a, h, n, s, lo, hi) ==
    IF lo = hi
    THEN OtsuStep(a, h, n, s, lo)
    ELSE LET mid == (lo + hi) \div 2
             low == OtsuScan(a, h, n, s, lo, mid)
         IN  IF low.n1 <= n THEN OtsuScan(low, h, n, s, mid + 1, hi) ELSE low

\* The sum of the levels of all pixels.
RECURSIVE LevelSum(_, _, _)
LevelSum(h, lo, hi) ==
    IF lo = hi
    THEN lo * h[lo]
    ELSE LevelSum(h, lo, (lo + hi) \div 2) + LevelSum(h, (lo + hi) \div 2 + 1, hi)

\* cv2.threshold(img, 0, 255, THRESH_BINARY + THRESH_OTSU): the pixels above
\* the Otsu threshold of the whole image.
OtsuBinary(img, pixels) ==
    LET h == Histogram(img, pixels)
        start == [n1 |-> 0, s1 |-> 0, val |-> 0, num |-> 0, den |-> 1]
        t == OtsuScan(start, h, Cardinality(pixels), LevelSum(h, 0, White), 0, White).val
    IN  {p \in pixels : img[p] > t}

\* Lines 39-41 and 46-48: the holes taken from the inverted binary.
HolesFromBinary(binary, outer, pixels, min_area) ==
    KeepLarge(outer \cap (pixels \ binary), min_area)

\* split_outer_holes_masks, lines 32-64.  gray.has is FALSE for gray=None.
split_outer_holes_masks(binary, gray, pixels, min_area) ==
    LET outer == KeepLarge(binary, min_area)
        masked == [p \in pixels |-> IF p \in outer THEN gray.img[p] ELSE 0]
        holes == KeepLarge(OtsuBinary(masked, pixels) \cap outer, min_area)
        bright == {p \in pixels : masked[p] >= BrightFrom /\ masked[p] <= White}
    IN  IF ~gray.has
        THEN [outer |-> outer, holes |-> HolesFromBinary(binary, outer, pixels, min_area)]
        ELSE IF Cardinality(outer) < MinGraySamples
        THEN [outer |-> outer, holes |-> HolesFromBinary(binary, outer, pixels, min_area)]
        ELSE IF holes = {}
        THEN [outer |-> outer, holes |-> KeepLarge(bright \cap outer, min_area)]
        ELSE [outer |-> outer, holes |-> holes]

\* A filled square of side s with its corner at <<r, c>>.
Square(r, c, s) == (r .. r + s - 1) \X (c .. c + s - 1)

\* A grayscale image that is ink inside the square and paper outside.
GrayOf(pixels, sq, ink, paper) ==
    [has |-> TRUE, img |-> [p \in pixels |-> IF p \in sq THEN ink ELSE paper]]

NoGray(pixels) == [has |-> FALSE, img |-> [p \in pixels |-> 0]]

\* The calls of the specification: an image of ImgW columns and ImgW or
\* ImgW + 1 rows that holds one filled square of side ImgW - 1 or ImgW;
\* gray omitted, or a gray that is uniformly at an ink level on the square
\* and at a paper level elsewhere; a min_area at or just above the contour
\* areas of the two squares.
InkLevels == {0, 1, 3}
PaperLevels == {BrightFrom, White}

SplitCall(q) ==
    LET pixels == PixelsOf(q.h, ImgW)
        sq == Square(q.r, q.c, q.s)
    IN  [pixels |-> pixels,
         binary |-> sq,
         gray |-> IF q.has THEN GrayOf(pixels, sq, q.ink, q.paper) ELSE NoGray(pixels),
         min_area |-> q.a]

SplitCalls ==
    { SplitCall(q) :
        q \in { q \in [h : {ImgW, ImgW + 1}, s : {ImgW - 1, ImgW}, r : 0 .. 2, c : 0 .. 1,
                       has : BOOLEAN, ink : InkLevels, paper : PaperLevels,
                       a : {(ImgW - 2) * (ImgW - 2), (ImgW - 1) * (ImgW - 1),
                            (ImgW - 1) * (ImgW - 1) + 1}] :
                    q.r + q.s <= q.h /\ q.c + q.s <= ImgW } }

NoMasks == [outer |-> {}, holes |-> {}]

SegIdle ==
    /\ h_in = [pixels |-> {}, binary |-> {}, gray |-> NoGray({}), min_area |-> 0]
    /\ h_out = NoMasks
    /\ h_done = FALSE

SegInit ==
    /\ h_in \in SplitCalls
    /\ h_out = NoMasks
    /\ h_done = FALSE

\* One call of split_outer_holes_masks.
SegCall ==
    /\ UNCHANGED notSeg
    /\ ~h_done
    /\ h_out' = split_outer_holes_masks(h_in.binary, h_in.gray, h_in.pixels, h_in.min_area)
    /\ h_done' = TRUE
    /\ UNCHANGED h_in

\* ---------------------------------------------------------------- Pipeline
\* An exception: its type and its text str(e), a list of characters.
Exc(type, text) == [type |-> type, text |-> text]
NoExc == Exc("none", << >>)

\* A Report (models.py 54-63): status, mm_per_px, num_paths and errors.
Report(status, mm, n, errors) ==
    [status |-> status, mm_per_px |-> mm, num_paths |-> n, errors |-> errors]
NoReport == Report("none", NoneF, 0, << >>)

NoReportFile == [exists |-> FALSE, report |-> NoReport]
NoCall == [called |-> FALSE, paths |-> << >>, scale |-> 0]

\* Lines 84-86: msg = str(e).strip(), or repr(e) (never empty) when that is
\* empty.
MessageOf(e) == IF Strip(e.text) = << >> THEN <<e.type, "(", ")">> ELSE Strip(e.text)

\* Lines 87-101: the Report of a failed run.
ErrorReport(e) == Report("error", NoneF, 0, <<MessageOf(e), <<"traceback">>>>)

\* A loop that leaves the layer the tracer gave.
RetagNone(ps, layer) == ps

\* Lines 56-57 and 62-63: every path is put on `layer`.
Retag(ps, layer) == [i \in 1 .. Len(ps) |-> [ps[i] EXCEPT !.layer = layer]]

\* Line 60: holes_mask.max().
RECURSIVE MaskMax(_, _)
MaskMax(mask, i) ==
    IF i = 0 THEN 0
    ELSE IF mask[i] > MaskMax(mask, i - 1) THEN mask[i] ELSE MaskMax(mask, i - 1)

\* How one call of vectorize_with_potrace can end: with the paths of the SVG
\* the engine left or the error of parsing it, with the engine missing or
\* failed, and, when a debug path is given, with the debug copy failed.
TraceOutcomes(debug) ==
    {svg_to_paths(s) : s \in SvgOutcomes}
    \cup {VecRaise("RuntimeError", "potrace not found", 0, << >>),
          VecRaise("RuntimeError", "potrace failed", 1, <<"E">>)}
    \cup (IF debug THEN {VecRaise("OSError", "debug_svg_path", 0, << >>)} ELSE {})

\* export_paths_to_dxf, lines 76-111, as one call: the entities of the
\* first i paths.
RECURSIVE ExportEntities(_, _, _, _, _)
ExportEntities(ps, sc, n, prefer, i) ==
    IF i = 0
    THEN << >>
    ELSE LET before == ExportEntities(ps, sc, n, prefer, i - 1)
             pts_mm == ScalePts(PathPts(ps[i].segments, Len(ps[i].segments), n), sc)
         IN  IF Len(pts_mm) = 0
             THEN before
             ELSE Append(before, MakeEntity(ps[i], pts_mm, prefer))

\* The document export_paths_to_dxf builds with its default bezier_samples
\* and prefer_splines (lines 55-56).
ExportDoc(ps, sc) ==
    [created |-> TRUE,
     layers |-> DefaultLayers \cup LayersToDeclare(ps),
     entities |-> ExportEntities(ps, sc, DefaultSamples, TRUE, Len(ps))]

\* The except clause of line 83 is entered with exception e.
PipCatch(e) == p_exc' = e /\ p_pc' = "handler"

\* Lines 20-34: the image is read and turned into the binary mask; imread
\* returns None for a path it cannot read.
PipRead ==
    /\ UNCHANGED notPip
    /\ p_pc = "start"
    /\ \E readable \in BOOLEAN :
          /\ Strip(p_cfg.input_path) = << >> => ~readable
          /\ IF readable
             THEN p_pc' = "read" /\ UNCHANGED p_exc
             ELSE PipCatch(Exc("FileNotFoundError", p_cfg.input_path))
    /\ UNCHANGED <<p_cfg, p_mm, p_masks, p_traced, p_outline, p_holes, p_export,
                   p_dxf, p_report_file, p_ret>>

\* Line 36.
PipCalibrate ==
    /\ UNCHANGED notPip
    /\ p_pc = "read"
    /\ LET r == compute_mm_per_px(p_cfg.scale)
       IN  IF r.status = "raised"
           THEN PipCatch(Exc(r.error, <<r.text>>)) /\ UNCHANGED p_mm
           ELSE p_mm' = SomeF(r.val) /\ p_pc' = "calibrated" /\ UNCHANGED p_exc
    /\ UNCHANGED <<p_cfg, p_masks, p_traced, p_outline, p_holes, p_export,
                   p_dxf, p_report_file, p_ret>>

\* Lines 38-45: with debug_dump the debug directory is made, which can fail
\* (cv2.imwrite reports a failure by its return value, which is not read).
PipDebugDir ==
    /\ UNCHANGED notPip
    /\ p_pc = "calibrated"
    /\ \E made \in BOOLEAN :
          IF p_cfg.debug_dump /\ ~made
          THEN PipCatch(Exc("OSError", <<"debug_dir">>))
          ELSE p_pc' = "dumped" /\ UNCHANGED p_exc
    /\ UNCHANGED <<p_cfg, p_mm, p_masks, p_traced, p_outline, p_holes, p_export,
                   p_dxf, p_report_file, p_ret>>

\* Lines 48-52: the binary mask is split; any two masks can come out.
PipSplit ==
    /\ UNCHANGED notPip
    /\ p_pc = "dumped"
    /\ \E om \in [1 .. 2 -> {0, White}], hm \in [1 .. 2 -> {0, White}] :
          p_masks' = [outer |-> om, holes |-> hm]
    /\ p_pc' = "split"
    /\ UNCHANGED <<p_cfg, p_mm, p_traced, p_outline, p_holes, p_export, p_dxf,
                   p_exc, p_report_file, p_ret>>

\* Lines 55-57: the outer mask is traced and its paths put on OUTLINE.
PipTraceOuter ==
    /\ UNCHANGED notPip
    /\ p_pc = "split"
    /\ p_traced' = Append(p_traced, p_masks.outer)
    /\ \E r \in TraceOutcomes(p_cfg.debug_dump) :
          IF r.status = "raised"
          THEN PipCatch(Exc(r.error.type, <<r.error.text>>)) /\ UNCHANGED p_outline
          ELSE p_outline' = Retag(r.paths, "OUTLINE") /\ p_pc' = "outlined" /\ UNCHANGED p_exc
    /\ UNCHANGED <<p_cfg, p_mm, p_masks, p_holes, p_export, p_dxf, p_report_file,
                   p_ret>>

\* Lines 59-63, holes_mask.max() > 0: the holes mask is traced and its
\* paths put on HOLES.
PipTraceHoles ==
    /\ UNCHANGED notPip
    /\ p_pc = "outlined"
    /\ MaskMax(p_masks.holes, Len(p_masks.holes)) > 0
    /\ p_traced' = Append(p_traced, p_masks.holes)
    /\ \E r \in TraceOutcomes(p_cfg.debug_dump) :
          IF r.status = "raised"
          THEN PipCatch(Exc(r.error.type, <<r.error.text>>)) /\ UNCHANGED p_holes
          ELSE p_holes' = Retag(r.paths, "HOLES") /\ p_pc' = "traced" /\ UNCHANGED p_exc
    /\ UNCHANGED <<p_cfg, p_mm, p_masks, p_outline, p_export, p_dxf, p_report_file,
                   p_ret>>

\* Lines 59-60, holes_mask.max() == 0: paths_holes stays empty.
PipSkipHoles ==
    /\ UNCHANGED notPip
    /\ p_pc = "outlined"
    /\ MaskMax(p_masks.holes, Len(p_masks.holes)) = 0
    /\ p_holes' = << >>
    /\ p_pc' = "traced"
    /\ UNCHANGED <<p_cfg, p_mm, p_masks, p_traced, p_outline, p_export, p_dxf,
                   p_exc, p_report_file, p_ret>>

\* Lines 65-67: export_paths_to_dxf(paths_outline + paths_holes, ...).  It
\* raises ValueError on a scale that is not positive and OSError when the
\* file cannot be opened or written; a failed write leaves a truncated file.
PipExport ==
    /\ UNCHANGED notPip
    /\ p_pc = "traced"
    /\ LET ps == p_outline \o p_holes
           d == ExportDoc(ps, p_mm.val)
       IN  /\ p_export' = [called |-> TRUE, paths |-> ps, scale |-> p_mm.val]
           /\ IF ScaleRejected(p_mm.val)
              THEN PipCatch(Exc("ValueError", <<"scale must be > 0">>)) /\ UNCHANGED p_dxf
              ELSE \/ p_dxf' = CompleteFile(d) /\ p_pc' = "exported" /\ UNCHANGED p_exc
                   \/ PipCatch(Exc("OSError", <<"output_dxf">>)) /\ UNCHANGED p_dxf
                   \/ /\ PipCatch(Exc("OSError", <<"output_dxf">>))
                      /\ \E j \in 0 .. Len(d.entities) : p_dxf' = TruncatedFile(d, j)
    /\ UNCHANGED <<p_cfg, p_mm, p_masks, p_traced, p_outline, p_holes,
                   p_report_file, p_ret>>

\* Lines 69-81: the Report of the successful run is written and returned;
\* write_text raises OSError when the report file cannot be written.
PipReportOk ==
    /\ UNCHANGED notPip
    /\ p_pc = "exported"
    /\ LET rep == Report("ok", p_mm, Len(p_export.paths), << >>)
       IN  \/ /\ p_report_file' = [exists |-> TRUE, report |-> rep]
              /\ p_ret' = [kind |-> "returned", report |-> rep]
              /\ p_pc' = "done"
              /\ UNCHANGED p_exc
           \/ /\ PipCatch(Exc("OSError", <<"report.json">>))
              /\ UNCHANGED <<p_report_file, p_ret>>
    /\ UNCHANGED <<p_cfg, p_mm, p_masks, p_traced, p_outline, p_holes, p_export,
                   p_dxf>>

\* Lines 83-103: the Report of the failed run is written and returned.
PipHandlerReturn ==
    /\ UNCHANGED notPip
    /\ p_pc = "handler"
    /\ p_report_file' = [exists |-> TRUE, report |-> ErrorReport(p_exc)]
    /\ p_ret' = [kind |-> "returned", report |-> ErrorReport(p_exc)]
    /\ p_pc' = "done"
    /\ UNCHANGED <<p_cfg, p_mm, p_masks, p_traced, p_outline, p_holes, p_export,
                   p_dxf, p_exc>>

\* Line 102: _write_report is called inside the except clause, under no try
\* of its own; when write_text raises there, run_pipeline raises.
PipHandlerRaise ==
    /\ UNCHANGED notPip
    /\ p_pc = "handler"
    /\ p_ret' = [kind |-> "raised", report |-> NoReport]
    /\ p_pc' = "done"
    /\ UNCHANGED <<p_cfg, p_mm, p_masks, p_traced, p_outline, p_holes, p_export,
                   p_dxf, p_exc, p_report_file>>

\* The configurations of the specification: an empty, a blank and a proper
\* input path; debug_dump off and on; references 100 and 200, a missing
\* reference, an explicit mm_per_px of 1.0, and references whose quotient is
\* below the smallest positive float.
PipConfigs ==
    [input_path : {<< >>, <<" ">>, <<"a", ".", "p", "n", "g">>},
     debug_dump : BOOLEAN,
     scale : {[mm_per_px |-> NoneF, ref_mm |-> SomeF(100 * One), ref_px |-> SomeF(200 * One)],
              [mm_per_px |-> NoneF, ref_mm |-> NoneF, ref_px |-> SomeF(200 * One)],
              [mm_per_px |-> SomeF(One), ref_mm |-> NoneF, ref_px |-> NoneF],
              [mm_per_px |-> NoneF, ref_mm |-> SomeF(1), ref_px |-> SomeF(200 * One)]}]

NoMaskPair == [outer |-> << >>, holes |-> << >>]

PipRest ==
    /\ p_mm = NoneF /\ p_masks = NoMaskPair /\ p_traced = << >>
    /\ p_outline = << >> /\ p_holes = << >> /\ p_export = NoCall
    /\ p_dxf = Absent /\ p_exc = NoExc /\ p_report_file = NoReportFile
    /\ p_ret = [kind |-> "none", report |-> NoReport]

PipIdle ==
    /\ p_cfg = [input_path |-> << >>, debug_dump |-> FALSE,
                scale |-> [mm_per_px |-> NoneF, ref_mm |-> NoneF, ref_px |-> NoneF]]
    /\ p_pc = "idle"
    /\ PipRest

PipInit ==
    /\ p_cfg \in PipConfigs
    /\ p_pc = "start"
    /\ PipRest

\* ------------------------------------------------------------ WatchHandler
ImageFile(size, good) == [exists |-> TRUE, size |-> size, good |-> good]
NoFile == [exists |-> FALSE, size |-> 0, good |-> FALSE]

\* A sampler that gives up on a file whose size changed.
SampleRejectsChange(last, size) == last.set /\ size # last.val

\* Lines 31-36: a size that differs from the last one is only stored in
\* last; no comparison ends the loop or the call.
SampleRejects(last, size) == FALSE

\* The environment: another process creates the image file or appends to
\* it, which makes the observer queue an on_created or on_modified event.
EnvWrite ==
    /\ UNCHANGED notWat
    /\ w_events < MaxQueue
    /\ \E good \in BOOLEAN :
          IF w_file.exists
          THEN /\ w_file.size < MaxSize
               /\ w_file' = ImageFile(w_file.size + 1, good)
          ELSE w_file' = ImageFile(1, good)
    /\ w_events' = w_events + 1
    /\ w_stale' = FALSE
    /\ UNCHANGED <<w_checks, w_failed, w_other, w_pc, w_i, w_last, w_seen, w_missed,
                   w_stable, w_status, w_kept, w_reran>>

\* The environment: the file's metadata change, or one write is reported
\* twice: an on_modified event with the content as it was.
EnvTouch ==
    /\ UNCHANGED notWat
    /\ w_events < MaxQueue
    /\ w_file.exists
    /\ w_events' = w_events + 1
    /\ UNCHANGED <<w_checks, w_file, w_failed, w_other, w_pc, w_i, w_last, w_seen,
                   w_missed, w_stable, w_status, w_kept, w_stale, w_reran>>

\* The environment: the image file is removed from the watched directory.
EnvRemove ==
    /\ UNCHANGED notWat
    /\ w_file.exists
    /\ w_file' = NoFile
    /\ w_stale' = FALSE
    /\ UNCHANGED <<w_checks, w_failed, w_events, w_other, w_pc, w_i, w_last, w_seen,
                   w_missed, w_stable, w_status, w_kept, w_reran>>

\* The environment: a file that is no image is created or modified.
EnvOther ==
    /\ UNCHANGED notWat
    /\ ~w_other
    /\ w_other' = TRUE
    /\ UNCHANGED <<w_checks, w_file, w_failed, w_events, w_pc, w_i, w_last, w_seen,
                   w_missed, w_stable, w_status, w_kept, w_stale, w_reran>>

\* Lines 47-60: an event for a path of another suffix is dropped.
WIgnore ==
    /\ UNCHANGED notWat
    /\ w_pc = "idle"
    /\ w_other
    /\ w_other' = FALSE
    /\ UNCHANGED <<w_checks, w_file, w_failed, w_events, w_pc, w_i, w_last, w_seen,
                   w_missed, w_stable, w_status, w_kept, w_stale, w_reran>>

\* Lines 47-62 and 25: an event for the image file is dispatched and
\* _is_file_stable is entered.
WBegin ==
    /\ UNCHANGED notWat
    /\ w_pc = "idle"
    /\ w_events > 0
    /\ w_events' = w_events - 1
    /\ w_pc' = "sampling"
    /\ w_i' = 0
    /\ w_last' = NoneF
    /\ w_seen' = << >>
    /\ w_missed' = FALSE
    /\ w_stable' = "none"
    /\ UNCHANGED <<w_checks, w_file, w_failed, w_other, w_status, w_kept, w_stale,
                   w_reran>>

\* Lines 26-37: one iteration of the loop.  stat() on a missing file ends
\* the call with False, and _handle returns (line 63).
WSample ==
    /\ UNCHANGED notWat
    /\ w_pc = "sampling"
    /\ w_i < w_checks
    /\ IF ~w_file.exists
       THEN /\ w_missed' = TRUE
            /\ w_stable' = "false"
            /\ w_pc' = "idle"
            /\ UNCHANGED <<w_i, w_last, w_seen>>
       ELSE IF SampleRejects(w_last, w_file.size)
       THEN /\ w_stable' = "false"
            /\ w_pc' = "idle"
            /\ w_seen' = Append(w_seen, w_file.size)
            /\ UNCHANGED <<w_i, w_last, w_missed>>
       ELSE /\ w_last' = SomeF(w_file.size)
            /\ w_seen' = Append(w_seen, w_file.size)
            /\ w_i' = w_i + 1
            /\ UNCHANGED <<w_missed, w_stable, w_pc>>
    /\ UNCHANGED <<w_checks, w_file, w_failed, w_events, w_other, w_status, w_kept,
                   w_stale, w_reran>>

\* Line 40: the loop is over, the call returns True.
WStable ==
    /\ UNCHANGED notWat
    /\ w_pc = "sampling"
    /\ w_i = w_checks
    /\ w_stable' = "true"
    /\ w_pc' = "stable"
    /\ UNCHANGED <<w_checks, w_file, w_failed, w_events, w_other, w_i, w_last, w_seen,
                   w_missed, w_status, w_kept, w_stale, w_reran>>

\* Lines 65-83: run_pipeline on the file; a missing file and a file the
\* pipeline cannot process give status "error".
WRun ==
    /\ UNCHANGED notWat
    /\ w_pc = "stable"
    /\ w_status' = IF w_file.exists /\ w_file.good THEN "ok" ELSE "error"
    /\ w_reran' = (w_reran \/ w_stale)
    /\ w_pc' = "ran"
    /\ UNCHANGED <<w_checks, w_file, w_failed, w_events, w_other, w_i, w_last, w_seen,
                   w_missed, w_stable, w_kept, w_stale>>

\* Line 84, status "ok": _handle returns.
WDone ==
    /\ UNCHANGED notWat
    /\ w_pc = "ran"
    /\ w_status = "ok"
    /\ w_pc' = "idle"
    /\ UNCHANGED <<w_checks, w_file, w_failed, w_events, w_other, w_i, w_last, w_seen,
                   w_missed, w_stable, w_status, w_kept, w_stale, w_reran>>

\* Lines 84-92, status not "ok": the file is renamed into _failed unless a
\* file of its name is there already; an exception of the rename (the file
\* is gone, the rename is refused) is swallowed.
WMove ==
    /\ UNCHANGED notWat
    /\ w_pc = "ran"
    /\ w_status # "ok"
    /\ \E renamed \in BOOLEAN :
          /\ (w_failed \/ ~w_file.exists) => ~renamed
          /\ IF renamed
             THEN w_file' = NoFile /\ w_failed' = TRUE
             ELSE UNCHANGED <<w_file, w_failed>>
    /\ w_kept' = w_file'.exists
    /\ w_stale' = w_file'.exists
    /\ w_pc' = "idle"
    /\ UNCHANGED <<w_checks, w_events, w_other, w_i, w_last, w_seen, w_missed,
                   w_stable, w_status, w_reran>>

WatRest ==
    /\ w_file = NoFile /\ w_events = 0 /\ w_other = FALSE
    /\ w_i = 0 /\ w_last = NoneF /\ w_seen = << >> /\ w_missed = FALSE
    /\ w_stable = "none" /\ w_status = "none" /\ w_kept = FALSE
    /\ w_stale = FALSE /\ w_reran = FALSE

WatIdle == w_checks = 0 /\ w_failed = FALSE /\ w_pc = "off" /\ WatRest

\* The observer starts on an empty watched directory; _failed may hold a
\* file of the image's name from an earlier session.
WatInit ==
    /\ w_checks \in 0 .. MaxChecks
    /\ w_failed \in BOOLEAN
    /\ w_pc = "idle"
    /\ WatRest

\* ---------------------------------------------------------- specifications
ExpIdle ==
    /\ paths = << >> /\ scale = One /\ bezier_samples = 1
    /\ prefer_splines = TRUE /\ pc = "idle" /\ doc = NoDoc /\ k = 0
    /\ pts = << >> /\ emitted = << >> /\ file0 = Absent /\ out_file = Absent
    /\ io_ops = 0 /\ result = "none"

\* One export call on a list of at most MaxPaths small paths.
Init ==
    /\ paths \in SeqsUpTo(SmallPaths, MaxPaths)
    /\ ExpInitCommon
    /\ SmpIdle
    /\ TrfIdle
    /\ VecIdle
    /\ SclIdle
    /\ MetIdle
    /\ SegIdle
    /\ PipIdle
    /\ WatIdle

Next ==
    \/ ExpReject
    \/ ExpNewDoc
    \/ ExpPath
    \/ ExpSaveOk
    \/ ExpSaveOpenFails
    \/ ExpSaveWriteFails

Spec == Init /\ [][Next]_vars

\* One export call on a list of at most MaxPaths small paths, and the
\* metrics of the file it wrote.
NextRoundTrip ==
    \/ ExpReject
    \/ ExpNewDoc
    \/ ExpPath
    \/ ExpSaveOk
    \/ ExpSaveOpenFails
    \/ ExpSaveWriteFails
    \/ RtMetrics

SpecRoundTrip == Init /\ [][NextRoundTrip]_vars

\* One export call on a single path of at most MaxSegs segments.
InitPath ==
    /\ paths \in {<<vp>> : vp \in PathUniverse}
    /\ ExpInitCommon
    /\ SmpIdle
    /\ TrfIdle
    /\ VecIdle
    /\ SclIdle
    /\ MetIdle
    /\ SegIdle
    /\ PipIdle
    /\ WatIdle

SpecPath == InitPath /\ [][Next]_vars

\* One call of the sampler.
InitSampler == SmpInit /\ ExpIdle /\ TrfIdle /\ VecIdle
    /\ SclIdle
    /\ MetIdle
    /\ SegIdle
    /\ PipIdle
    /\ WatIdle

NextSampler == SmpCall

SpecSampler == InitSampler /\ [][NextSampler]_vars

\* One call of the transform parser.
InitTransform == TrfInit /\ ExpIdle /\ SmpIdle /\ VecIdle
    /\ SclIdle
    /\ MetIdle
    /\ SegIdle
    /\ PipIdle
    /\ WatIdle

NextTransform == TrfCall

SpecTransform == InitTransform /\ [][NextTransform]_vars

\* One call of vectorize_with_potrace.
InitTrace == VecInit /\ ExpIdle /\ SmpIdle /\ TrfIdle
    /\ SclIdle
    /\ MetIdle
    /\ SegIdle
    /\ PipIdle
    /\ WatIdle

NextTrace ==
    \/ VecEnter
    \/ VecEngineMissing
    \/ VecStage
    \/ VecRun
    \/ VecDebug
    \/ VecParse

SpecTrace == InitTrace /\ [][NextTrace]_vars

\* One call of compute_mm_per_px.
InitScale ==
    /\ SclInit
    /\ ExpIdle
    /\ SmpIdle
    /\ TrfIdle
    /\ VecIdle
    /\ MetIdle
    /\ SegIdle
    /\ PipIdle
    /\ WatIdle

NextScale == SclCall

SpecScale == InitScale /\ [][NextScale]_vars

\* One call of compute_dxf_metrics on a drawing of at most MaxEntities
\* entities.
InitMetrics ==
    /\ MetInit
    /\ ExpIdle
    /\ SmpIdle
    /\ TrfIdle
    /\ VecIdle
    /\ SclIdle
    /\ SegIdle
    /\ PipIdle
    /\ WatIdle

NextMetrics == MetCall

SpecMetrics == InitMetrics /\ [][NextMetrics]_vars

\* One call of split_outer_holes_masks on a filled square.
InitSplit ==
    /\ SegInit
    /\ ExpIdle
    /\ SmpIdle
    /\ TrfIdle
    /\ VecIdle
    /\ SclIdle
    /\ MetIdle
    /\ PipIdle
    /\ WatIdle

NextSplit == SegCall

SpecSplit == InitSplit /\ [][NextSplit]_vars

\* One call of run_pipeline.
InitPipeline ==
    /\ PipInit
    /\ ExpIdle
    /\ SmpIdle
    /\ TrfIdle
    /\ VecIdle
    /\ SclIdle
    /\ MetIdle
    /\ SegIdle
    /\ WatIdle

NextPipeline ==
    \/ PipRead
    \/ PipCalibrate
    \/ PipDebugDir
    \/ PipSplit
    \/ PipTraceOuter
    \/ PipTraceHoles
    \/ PipSkipHoles
    \/ PipExport
    \/ PipReportOk
    \/ PipHandlerReturn
    \/ PipHandlerRaise

SpecPipeline == InitPipeline /\ [][NextPipeline]_vars

\* The handler of the watched directory, its events and the processes that
\* write and remove the image file.
InitWatch ==
    /\ WatInit
    /\ ExpIdle
    /\ SmpIdle
    /\ TrfIdle
    /\ VecIdle
    /\ SclIdle
    /\ MetIdle
    /\ SegIdle
    /\ PipIdle

NextWatch ==
    \/ EnvWrite
    \/ EnvTouch
    \/ EnvRemove
    \/ EnvOther
    \/ WIgnore
    \/ WBegin
    \/ WSample
    \/ WStable
    \/ WRun
    \/ WDone
    \/ WMove

SpecWatch == InitWatch /\ [][NextWatch]_vars

\* ------------------------------------------------------------------ claims

\* C1 (SpecPath): every path that yields points gets exactly one entity; it
\* is a SPLINE iff the path has a quad or cubic segment, prefer_splines is
\* set and the entity has at least 4 points, and an LWPOLYLINE otherwise; the
\* entity carries the path's closed flag and layer.
C1_EntityChoice ==
    \A i \in 1 .. k :
        LET vp == paths[i]
            curved == \E j \in 1 .. Len(vp.segments) :
                          vp.segments[j].kind \in {"quad_bezier", "cubic_bezier"}
        IN  /\ (Len(vp.segments) > 0) <=> (emitted[i] # 0)
            /\ emitted[i] # 0 =>
                 LET e == doc.entities[emitted[i]]
                 IN  /\ e.dxftype \in {"SPLINE", "LWPOLYLINE"}
                     /\ (e.dxftype = "SPLINE") <=>
                            (curved /\ prefer_splines /\ Len(e.points) >= 4)
                     /\ e.closed = vp.is_closed
                     /\ e.layer = vp.layer

\* A closed curved path on layer CUSTOM sampled to exactly 4 points became a
\* closed SPLINE on CUSTOM.
C1_Witness ==
    /\ k = 1 /\ emitted = <<1>>
    /\ paths[1].is_closed /\ paths[1].layer = "CUSTOM"
    /\ doc.entities[1].dxftype = "SPLINE"
    /\ Len(doc.entities[1].points) = 4
    /\ doc.entities[1].closed /\ doc.entities[1].layer = "CUSTOM"

\* C2 (Spec): after a successful call the drawing at out_path is complete and
\* declares OUTLINE, HOLES, REF and the layer of every input path.
C2_LayersDeclared ==
    result = "ok" =>
        /\ out_file.exists /\ out_file.complete
        /\ {"OUTLINE", "HOLES", "REF"} \subseteq out_file.layers
        /\ \A i \in 1 .. Len(paths) : paths[i].layer \in out_file.layers

\* A successful export whose only path is on CUSTOM and yields no entity.
C2_Witness ==
    /\ result = "ok"
    /\ Len(paths) = 1 /\ paths[1].layer = "CUSTOM"
    /\ out_file.entities = << >>
    /\ "CUSTOM" \in out_file.layers /\ "REF" \in out_file.layers

\* C3 (Spec): with scale <= 0 the call never creates a document, never makes
\* a file-system operation and never changes out_path, and it ends in the
\* ValueError.
C3_RejectBeforeIO ==
    scale <= 0 =>
        /\ io_ops = 0
        /\ out_file = file0
        /\ ~doc.created
        /\ pc \in {"start", "done"}
        /\ pc = "done" => result = "ValueError"

\* A call with scale 0 on a non-empty path list over an existing drawing has
\* ended in the error.
C3_Witness ==
    /\ scale = 0 /\ pc = "done" /\ result = "ValueError"
    /\ Len(paths) > 0 /\ file0 = OldFile /\ out_file = OldFile

\* C4 (SpecSampler): for n >= 1 a cubic (quadratic) segment is sampled to
\* n + 1 points at the strictly increasing parameters i/n, 0 and 1 exactly at
\* the ends; the first point is exactly p0 and the last exactly p3 (p1 of the
\* quadratic: its third point).
C4_SamplerEndpoints ==
    (s_done /\ s_seg.kind \in {"cubic_bezier", "quad_bezier"}) =>
        /\ Len(s_out) = s_n + 1
        /\ s_out[1] = s_seg.pts[1]
        /\ s_out[s_n + 1] = s_seg.pts[Len(s_seg.pts)]
        /\ ParamAt(0, s_n) = 0 /\ ParamAt(s_n, s_n) = One
        /\ \A i \in 0 .. s_n - 1 : ParamAt(i, s_n) < ParamAt(i + 1, s_n)
        /\ \A i \in 0 .. s_n :
              s_out[i + 1] =
                 IF s_seg.kind = "cubic_bezier"
                 THEN <<CubicCoord(s_seg.pts[1][1], s_seg.pts[2][1], s_seg.pts[3][1],
                                   s_seg.pts[4][1], ParamAt(i, s_n)),
                        CubicCoord(s_seg.pts[1][2], s_seg.pts[2][2], s_seg.pts[3][2],
                                   s_seg.pts[4][2], ParamAt(i, s_n))>>
                 ELSE <<QuadCoord(s_seg.pts[1][1], s_seg.pts[2][1], s_seg.pts[3][1],
                                  ParamAt(i, s_n)),
                        QuadCoord(s_seg.pts[1][2], s_seg.pts[2][2], s_seg.pts[3][2],
                                  ParamAt(i, s_n))>>

\* A cubic with distinct end points sampled with the largest n.
C4_Witness ==
    /\ s_done /\ s_seg.kind = "cubic_bezier" /\ s_n = MaxSamples
    /\ s_seg.pts[1] # s_seg.pts[4]
    /\ s_out[1] = s_seg.pts[1] /\ s_out[MaxSamples + 1] = s_seg.pts[4]

\* C5 as stated (SpecPath): the point stream built for a path has no two
\* adjacent points within the tolerance of each other.
C5_NoAdjacentDuplicates ==
    \A i \in 1 .. Len(pts) - 1 : ~almost_same(pts[i], pts[i + 1])

RECURSIVE SumTo(_, _)
SumTo(f, n) == IF n = 0 THEN 0 ELSE f[n] + SumTo(f, n - 1)

\* C5 as amended (SpecPath): only the junction of two consecutive segments is
\* de-duplicated.  The stream holds every sample of every segment, except
\* the first sample of each segment that starts within the tolerance of the
\* end of the segment before it.
C5_JunctionDedup ==
    (k = 1) =>
        LET segs == paths[1].segments
            sp == [i \in 1 .. Len(segs) |-> segment_to_points(segs[i], bezier_samples)]
            joined == {i \in 2 .. Len(segs) :
                          /\ Abs(sp[i - 1][Len(sp[i - 1])][1] - sp[i][1][1]) <= Eps
                          /\ Abs(sp[i - 1][Len(sp[i - 1])][2] - sp[i][1][2]) <= Eps}
            len == [i \in 1 .. Len(segs) |-> Len(sp[i])]
        IN  /\ Len(pts) = SumTo(len, Len(segs)) - Cardinality(joined)
            /\ Len(segs) > 0 => pts[Len(pts)] = sp[Len(segs)][Len(sp[Len(segs)])]
            /\ Len(segs) > 0 => SubSeq(pts, 1, Len(sp[1])) = sp[1]

\* Two lines whose junction points differ by one unit in each coordinate
\* were joined into three points.
C5_Witness ==
    /\ k = 1
    /\ paths[1].segments = <<Seg("line", <<PA, PB>>), Seg("line", <<PB2, PD>>)>>
    /\ pts = <<PA, PB, PD>>

\* C10 as stated (Spec): whenever the call has failed, out_path holds no
\* file or a complete drawing.
C10_NoPartialDrawing ==
    (pc = "done" /\ result # "ok") => (out_file.exists => out_file.complete)

\* The map one well-formed token denotes (translate(tx[,ty]), scale(sx[,sy]),
\* matrix(a,b,c,d,e,f)), applied to point p.
TokenMap(tk, p) ==
    LET a == [i \in 1 .. Len(tk.args) |-> tk.args[i].val]
    IN  IF tk.name = "translate"
        THEN <<p[1] + a[1], p[2] + (IF Len(a) = 2 THEN a[2] ELSE 0)>>
        ELSE IF tk.name = "scale"
        THEN <<a[1] * p[1], (IF Len(a) = 2 THEN a[2] ELSE a[1]) * p[2]>>
        ELSE <<a[1] * p[1] + a[3] * p[2] + a[5], a[2] * p[1] + a[4] * p[2] + a[6]>>

\* T_i(T_i+1(...(T_k(p)))) for the tokens i..k of toks.
RECURSIVE ApplyFrom(_, _, _)
ApplyFrom(toks, i, p) ==
    IF i > Len(toks) THEN p ELSE TokenMap(toks[i], ApplyFrom(toks, i + 1, p))

\* A token of the grammar: a known name, numeric arguments, 1 or 2 of them
\* for translate and scale, 6 for matrix.
WellFormed(tk) ==
    /\ tk.name \in {"translate", "scale", "matrix"}
    /\ \A i \in 1 .. Len(tk.args) : tk.args[i].num
    /\ IF tk.name = "matrix" THEN Len(tk.args) = 6 ELSE Len(tk.args) \in {1, 2}

\* Three points that are not collinear: two affine maps that agree on them
\* are equal.
ProbePoints == {<<1, 1>>, <<0, 0>>, <<2, -1>>}

\* C6 (SpecTransform): for a list T1 ... Tk of well-formed tokens the matrix
\* returned maps every point p to T1(T2(...(Tk(p)))); "translate(5,0)
\* scale(2)" maps (1,1) to (7,2).
C6_RightToLeft ==
    (t_done /\ \A i \in 1 .. Len(t_in) : WellFormed(t_in[i])) =>
        /\ t_out.raised = "none"
        /\ \A p \in ProbePoints : affine_apply(t_out.m, p) = ApplyFrom(t_in, 1, p)
        /\ t_in = <<Tok("translate", <<Num(5), Num(0)>>), Tok("scale", <<Num(2)>>)>>
             => affine_apply(t_out.m, <<1, 1>>) = <<7, 2>>

\* "translate(5,0) scale(2)" has been parsed and maps (1,1) to (7,2).
C6_Witness ==
    /\ t_done
    /\ t_in = <<Tok("translate", <<Num(5), Num(0)>>), Tok("scale", <<Num(2)>>)>>
    /\ t_out.raised = "none"
    /\ affine_apply(t_out.m, <<1, 1>>) = <<7, 2>>

\* C7 as stated (SpecTransform): the call never raises, and the matrix it
\* returns is the composition of the well-formed tokens of the string, the
\* others contributing nothing.
C7_LenientParse ==
    t_done =>
        /\ t_out.raised = "none"
        /\ \A p \in ProbePoints :
              affine_apply(t_out.m, p) = ApplyFrom(SelectSeq(t_in, WellFormed), 1, p)

\* C8 (SpecTrace): when potrace is not found the call launches no subprocess
\* and stages nothing, and ends in the "not found" error; when the
\* subprocess ends with a non-zero code the call ends in an error that holds
\* the code and the stderr text, its surrounding white space removed.  In
\* both cases no path list is returned.
C8_EngineFailures ==
    /\ ~v_which =>
          /\ v_launched = 0
          /\ v_created \subseteq {TmpDir(OuterDir)}
          /\ v_pc = "done" =>
                /\ v_result.status = "raised"
                /\ v_result.error.type = "RuntimeError"
                /\ v_result.error.text = "potrace not found"
                /\ v_result.paths = << >>
    /\ (v_launched > 0 /\ v_proc.rc # 0) =>
          /\ v_pc = "done"
          /\ v_result.status = "raised"
          /\ v_result.paths = << >>
          /\ v_result.error.type = "RuntimeError"
          /\ v_result.error.rc = v_proc.rc
          /\ LET d == v_result.error.diag
             IN  /\ \E i \in 0 .. Len(v_proc.stderr), j \in 0 .. Len(v_proc.stderr) :
                       /\ i <= j
                       /\ d = SubSeq(v_proc.stderr, i + 1, j)
                       /\ \A n \in (1 .. i) \cup (j + 1 .. Len(v_proc.stderr)) :
                             v_proc.stderr[n] \in {" ", "\n"}
                 /\ Len(d) > 0 => (d[1] \notin {" ", "\n"} /\ d[Len(d)] \notin {" ", "\n"})

\* The engine was launched, was killed by a signal, and the call ended in
\* the error holding "E" of the stderr text " E\n".
C8_Witness ==
    /\ v_pc = "done" /\ v_launched = 1
    /\ v_proc = [rc |-> -9, stderr |-> <<" ", "E", "\n">>]
    /\ v_result.status = "raised" /\ v_result.error.diag = <<"E">>

\* C9 (SpecTrace): once the call has ended, by return or by any exception,
\* nothing it created in its temporary directories exists.
C9_ScratchRemoved ==
    v_pc = "done" => \A f \in v_created : f \notin v_scratch

\* The call ended in a parse error after it had created both directories,
\* input.pgm and out.svg.
C9_Witness ==
    /\ v_pc = "done"
    /\ v_result.status = "raised" /\ v_result.error.type = "ParseError"
    /\ v_created = {TmpDir(OuterDir), TmpDir(InnerDir),
                    TmpFile(InnerDir, "input.pgm"), TmpFile(OuterDir, "out.svg")}
    /\ v_scratch = {}

\* The point count the kind tag of a segment stands for.
PointsOfKind(kind) ==
    CASE kind = "line" -> 2
      [] kind = "quad_bezier" -> 3
      [] kind = "cubic_bezier" -> 4

\* C11 as stated (SpecPath): a segment whose point count differs from the one
\* its tag stands for is never exported as geometry: the loop does not get
\* past a path that holds one, and the call does not end in success.
C11_MalformedRejected ==
    \A i \in 1 .. Len(paths) :
        (\E j \in 1 .. Len(paths[i].segments) :
            Len(paths[i].segments[j].pts) # PointsOfKind(paths[i].segments[j].kind))
        => /\ k < i
           /\ result # "ok"

\* How the call without a debug_svg_path ends on the engine behaviour of this
\* run (potrace found or not, the completed process, the out.svg it left).
PlainOutcome ==
    IF ~v_which
    THEN VecRaise("RuntimeError", "potrace not found", 0, << >>)
    ELSE IF RunFailed(v_proc.rc)
    THEN VecRaise("RuntimeError", "potrace failed", v_proc.rc, Strip(v_proc.stderr))
    ELSE svg_to_paths(v_svg)

\* C12 as stated (SpecTrace): a debug_svg_path does not alter the result.
\* Every call, with a debug path or without, returns the path list or fails
\* with the error of the call without one on the same engine behaviour,
\* also when the debug location cannot be written.
C12_DebugNeutral ==
    v_pc = "done" => v_result = PlainOutcome

\* C13 as stated (SpecScale): the call returns ref_mm / ref_px whenever both
\* references are present and positive, fails with a calibration error
\* whenever either is omitted or not positive, and never returns a scale
\* that is zero or negative.
C13_ScaleFromRefs ==
    c_done =>
        LET mm == c_cfg.ref_mm
            px == c_cfg.ref_px
        IN  /\ (mm.set /\ px.set /\ mm.val > 0 /\ px.val > 0) =>
                  /\ c_out.status = "returned"
                  /\ 2 * Abs(c_out.val * px.val - mm.val * One) <= px.val
            /\ ~(mm.set /\ px.set /\ mm.val > 0 /\ px.val > 0) =>
                  c_out.status = "raised"
            /\ c_out.status = "returned" => c_out.val > 0

\* C13 as amended (SpecScale): an explicit mm_per_px comes first: a positive
\* one is returned as it is, whatever the references, and one that is not
\* positive fails.  Without it the call returns the float quotient
\* ref_mm / ref_px (the nearest float; 0.5 for 100 and 200) when both
\* references are present and positive and fails with ValueError otherwise.
\* A returned scale is never negative, and is zero only for a quotient of
\* positive references that is below half the smallest positive float.
C13_ScaleFromConfig ==
    c_done =>
        LET mm == c_cfg.ref_mm
            px == c_cfg.ref_px
            own == c_cfg.mm_per_px
        IN  /\ (own.set /\ own.val > 0) => c_out = ScaleReturn(own.val)
            /\ (own.set /\ own.val <= 0) =>
                  (c_out.status = "raised" /\ c_out.error = "ValueError")
            /\ (~own.set /\ mm.set /\ px.set /\ mm.val > 0 /\ px.val > 0) =>
                  /\ c_out.status = "returned"
                  /\ 2 * Abs(c_out.val * px.val - mm.val * One) <= px.val
                  /\ (mm.val = 100 * One /\ px.val = 200 * One /\ One % 2 = 0) =>
                        2 * c_out.val = One
            /\ (~own.set /\ ~(mm.set /\ px.set /\ mm.val > 0 /\ px.val > 0)) =>
                  (c_out.status = "raised" /\ c_out.error = "ValueError")
            /\ c_out.status = "returned" =>
                  /\ c_out.val >= 0
                  /\ c_out.val = 0 =>
                        (~own.set /\ mm.val > 0 /\ px.val > 0 /\ 2 * mm.val * One < px.val)

\* Without mm_per_px, references 100.0 and 200.0 gave the quotient.
C13_Witness ==
    /\ c_done
    /\ c_cfg = [mm_per_px |-> NoneF, ref_mm |-> SomeF(100 * One), ref_px |-> SomeF(200 * One)]
    /\ c_out.status = "returned"
    /\ 2 * Abs(c_out.val * 200 - 100 * One) <= 200

\* The coordinates the box is to be taken from: polyline vertices, spline
\* fit points, and the control points of a spline that has no fit point.
BoxPoints(es) ==
    UNION { IF es[i].dxftype = "LWPOLYLINE" \/ (es[i].dxftype = "SPLINE" /\ Len(es[i].points) > 0)
            THEN {es[i].points[j] : j \in 1 .. Len(es[i].points)}
            ELSE IF es[i].dxftype = "SPLINE"
            THEN {es[i].ctrl[j] : j \in 1 .. Len(es[i].ctrl)}
            ELSE {} : i \in 1 .. Len(es) }

Least(S) == CHOOSE x \in S : \A y \in S : x <= y
Greatest(S) == CHOOSE x \in S : \A y \in S : x >= y

\* C14 (SpecMetrics): the call counts every entity of the drawing once in the
\* tally of its type and once in the tally of its layer, unknown types
\* included; the box is the extent of the polyline vertices and spline fit
\* points (control points for a spline without fit points) and is
\* (0, 0, 0, 0) when there is no such coordinate; it is never infinite.
C14_MetricsTally ==
    m_done =>
        LET es == m_file.entities
            idx == 1 .. Len(es)
            types == {es[i].dxftype : i \in idx}
            lays == {es[i].layer : i \in idx}
            xy == BoxPoints(es)
            box == m_out.bbox_mm
        IN  /\ m_out.status = "returned"
            /\ m_out.num_entities = Len(es)
            /\ DOMAIN m_out.entities_by_type = types
            /\ \A t \in types :
                  m_out.entities_by_type[t] = Cardinality({i \in idx : es[i].dxftype = t})
            /\ DOMAIN m_out.layers = lays
            /\ \A l \in lays :
                  m_out.layers[l] = Cardinality({i \in idx : es[i].layer = l})
            /\ \A c \in 1 .. 4 : box[c].fin
            /\ IF xy = {}
               THEN \A c \in 1 .. 4 : box[c].v = 0
               ELSE /\ box[1].v = Least({p[1] : p \in xy})
                    /\ box[2].v = Least({p[2] : p \in xy})
                    /\ box[3].v = Greatest({p[1] : p \in xy})
                    /\ box[4].v = Greatest({p[2] : p \in xy})

\* A circle, a spline with control points only and a spline with fit and
\* control points: three entities of two types on three layers, and the box
\* of the second's control points and the third's fit points.
C14_Witness ==
    /\ m_done
    /\ m_file.entities =
          << Entity("CIRCLE", "0", << <<20, 20>> >>, << >>),
             Entity("SPLINE", "OUTLINE", << >>, << <<-7, -7>>, <<2, 2>> >>),
             Entity("SPLINE", "HOLES", << <<-3, 1>>, <<1, 5>> >>, << <<9, 9>> >>) >>
    /\ m_out.num_entities = 3
    /\ m_out.entities_by_type["SPLINE"] = 2 /\ m_out.entities_by_type["CIRCLE"] = 1
    /\ m_out.layers["0"] = 1
    /\ m_out.bbox_mm = <<Fin(-7), Fin(-7), Fin(2), Fin(5)>>

\* The paths of the call that yield at least one point, all or on layer l.
Yielding == {i \in 1 .. Len(paths) :
                Len(PathPts(paths[i].segments, Len(paths[i].segments), bezier_samples)) > 0}
YieldingOn(l) == {i \in Yielding : paths[i].layer = l}

\* C15 (SpecRoundTrip): the file a successful export wrote is read back by
\* the metrics; their entity count is the number of input paths that yield
\* at least one point, their count for each layer is the number of those
\* paths on that layer, and an empty path list gives zero entities and the
\* all-zero box.
C15_RoundTrip ==
    m_done =>
        /\ m_out.status = "returned"
        /\ m_out.num_entities = Cardinality(Yielding)
        /\ DOMAIN m_out.layers = {l \in Layers : YieldingOn(l) # {}}
        /\ \A l \in DOMAIN m_out.layers : m_out.layers[l] = Cardinality(YieldingOn(l))
        /\ paths = << >> => (m_out.num_entities = 0 /\ m_out.bbox_mm = NoBox)

\* An empty path on OUTLINE and a one-segment path on HOLES were exported:
\* the metrics count one entity, on HOLES, and none on OUTLINE.
C15_Witness ==
    /\ m_done
    /\ Len(paths) = 2
    /\ paths[1].segments = << >> /\ paths[1].layer = "OUTLINE"
    /\ paths[2].segments # << >> /\ paths[2].layer = "HOLES"
    /\ m_out.num_entities = 1
    /\ DOMAIN m_out.layers = {"HOLES"}
    /\ m_out.layers["HOLES"] = 1

\* C16 as stated (SpecSplit): for a filled square whose contour area reaches
\* min_area and that has no cutout, the call returns a non-empty outer mask
\* and an empty holes mask, with gray omitted and with a gray in which the
\* square is uniformly at an ink level.
C16_SquareHasNoHoles ==
    (h_done /\ ContourArea(h_in.binary) >= h_in.min_area) =>
        /\ h_out.outer # {}
        /\ h_out.holes = {}

\* C17 as stated (SpecPipeline): the call always ends by returning a Report,
\* never by raising, whatever stage failed, the writing of the report
\* included.  The Report says "ok" with no error only after the drawing was
\* exported, and "error" with non-empty messages, num_paths 0 and no
\* mm_per_px otherwise; a report of the same status is at
\* <output_dxf>.report.json.
C17_AlwaysReport ==
    p_pc = "done" =>
        LET rep == p_ret.report
        IN  /\ p_ret.kind = "returned"
            /\ rep.status \in {"ok", "error"}
            /\ rep.status = "ok" =>
                  /\ p_dxf.exists /\ p_dxf.complete
                  /\ rep.errors = << >>
            /\ rep.status = "error" =>
                  /\ rep.errors # << >>
                  /\ \A i \in 1 .. Len(rep.errors) : rep.errors[i] # << >>
                  /\ rep.num_paths = 0
                  /\ ~rep.mm_per_px.set
            /\ p_report_file.exists
            /\ p_report_file.report.status = rep.status

\* C18 (SpecPipeline): in every run that ends with status "ok", the paths
\* handed to the export are the paths traced from the outer mask, each on
\* OUTLINE, followed by the paths traced from the holes mask, each on HOLES,
\* and so are the layers of their entities in the drawing; the tracer was
\* called on the holes mask exactly when that mask has a foreground pixel;
\* num_paths is the number of outline paths plus the number of holes paths.
C18_LayerSeparation ==
    (p_pc = "done" /\ p_ret.kind = "returned" /\ p_ret.report.status = "ok") =>
        LET ps == p_export.paths
            n1 == Len(p_outline)
            n2 == Len(p_holes)
            holey == \E i \in 1 .. Len(p_masks.holes) : p_masks.holes[i] # 0
            drawn == {i \in 1 .. Len(ps) : Len(ps[i].segments) > 0}
            on(l) == {i \in 1 .. Len(p_dxf.entities) : p_dxf.entities[i].layer = l}
        IN  /\ Len(ps) = n1 + n2
            /\ \A i \in 1 .. n1 : ps[i] = p_outline[i] /\ ps[i].layer = "OUTLINE"
            /\ \A i \in 1 .. n2 : ps[n1 + i] = p_holes[i] /\ ps[n1 + i].layer = "HOLES"
            /\ Cardinality(on("OUTLINE")) = Cardinality({i \in drawn : i <= n1})
            /\ Cardinality(on("HOLES")) = Cardinality({i \in drawn : i > n1})
            /\ Len(p_dxf.entities) = Cardinality(drawn)
            /\ p_traced = IF holey THEN <<p_masks.outer, p_masks.holes>>
                                   ELSE <<p_masks.outer>>
            /\ ~holey => n2 = 0
            /\ p_ret.report.num_paths = n1 + n2

\* A run ended "ok" after both masks were traced to one path each: two
\* paths were exported, the first on OUTLINE and the second on HOLES.
C18_Witness ==
    /\ p_pc = "done" /\ p_ret.kind = "returned" /\ p_ret.report.status = "ok"
    /\ Len(p_traced) = 2
    /\ Len(p_outline) = 1 /\ Len(p_holes) = 1
    /\ p_ret.report.num_paths = 2
    /\ Len(p_dxf.entities) = 2
    /\ p_dxf.entities[1].layer = "OUTLINE" /\ p_dxf.entities[2].layer = "HOLES"

\* C19 (SpecWatch): _is_file_stable returns False only when one of its
\* samples found the file missing; when every one of its `checks` samples
\* found the file it returns True whatever sizes they saw, and the file is
\* handed to run_pipeline.
C19_StableWhateverSizes ==
    /\ w_stable = "false" => w_missed
    /\ w_stable = "true" => (~w_missed /\ Len(w_seen) = w_checks)
    /\ w_pc = "sampling" =>
          (w_stable = "none" /\ ~w_missed /\ Len(w_seen) = w_i /\ w_i <= w_checks)
    /\ w_pc \in {"stable", "ran"} => w_stable = "true"

\* Two samples saw the sizes 1 and 2 of a file that was being written; the
\* call returned True and the pipeline was run on the file.
C19_Witness ==
    /\ w_pc = "ran"
    /\ w_checks = 2
    /\ w_seen = <<1, 2>>
    /\ w_stable = "true"

\* C20 as stated (SpecWatch): once the handler has run the pipeline and the
\* status is not "ok", the input is no longer in the watched directory, and
\* the pipeline is never run again on an input that failed and was not
\* written since, whatever events follow.
C20_FailedInputMoved ==
    /\ ~w_kept
    /\ ~w_reran

=============================================================================
